---- MODULE Spec2Model ----
(***************************************************************************)
(* A state-machine model of the eir function container                     *)
(* (libeir_ir/src/function/mod.rs), its location container                 *)
(* (libeir_ir/src/function/location.rs) and the function builder that      *)
(* mutates them.                                                           *)
(*                                                                         *)
(* Handles are 1-based indices into the arenas (the Rust handles are the   *)
(* same indices, 0-based); argument positions and value-list positions     *)
(* keep the 0-based numbering of the source.  The handle 0 is "no handle"  *)
(* (Option::None).                                                         *)
(***************************************************************************)
EXTENDS Integers, Sequences, FiniteSets, TLC

VARIABLES
    blocks,     \* Function.blocks: PrimaryMap<Block, BlockData>
    values,     \* Function.values: ValueMap (kind and usages per value)
    primops,    \* Function.primops: DedupAuxPrimaryMap<PrimOp, PrimOpData>
    consts,     \* Function.constant_container: the interned constants
    terminals,  \* LocationContainer.terminals
    locations,  \* LocationContainer.locations (each a list of terminals)
    result,     \* the last call made, its arguments and what it returned
    aborted,    \* a builder contract violation was reported (panic)
    entry,      \* Function.entry_block: Option<Block>
    pass        \* the SimplifyCfgPass object and the position of its run

vars == <<blocks, values, primops, consts, terminals, locations, result, aborted,
          entry, pass>>

funVars == <<blocks, values, primops, consts>>
locVars == <<terminals, locations>>
passVars == <<entry, pass>>

----------------------------------------------------------------------------
(* Bounds of the model. *)

MaxBlocks == 2      \* blocks of a function under construction
MaxValues == 3      \* values of a function under construction
MaxPrimOps == 1     \* PrimOps of a function under construction
MaxReads == 3       \* terminator reads of a function, over all its blocks
ArenaBlocks == 2    \* blocks, when only the arenas are grown
ArenaValues == 4    \* values, when only the arenas are grown
ArenaPrimOps == 2   \* PrimOps, when only the arenas are grown
MaxSpan == 1        \* source spans 1..MaxSpan besides UNKNOWN
MaxTerminals == 2   \* terminals of a location container
MaxLocations == 3   \* locations of a location container
MaxLocLen == 3      \* terminals of one location
LocBlocks == 1      \* blocks inserted beside the location calls
PassBlocks == 4     \* blocks of a function handed to simplify_cfg
PassRuns == 2       \* runs of simplify_cfg on one function
UnfoldDepth == 4    \* terminators in a row a function is followed through
InvalidBlocks == 3  \* blocks of a function that fails graph_validate_global
MangleBlocks == 2   \* blocks of a function handed to the mangler alone
MaxRenames == 2     \* renames registered with the mangler
IdentityBlocks == 3 \* blocks of a function mangled with no rename
MaxBranches == 2    \* branches of a Match that is printed
WalkPrimOps == 2    \* PrimOps of a function whose values are walked
LocPassBlocks == 3  \* blocks with locations of a function handed to simplify_cfg
LocPassRuns == 1    \* runs of simplify_cfg on a function with locations

\* Shapes of the calls made on the builder.
Atoms == {"a", "b"}
PrimOpKinds == {"Tuple", "ValueList"}
OperandCounts == {2}
CallArgCounts == {0}

----------------------------------------------------------------------------
(* Helpers on sequences. *)

Range(s) == {s[i] : i \in DOMAIN s}

SeqsUpTo(S, n) == UNION {[1..k -> S] : k \in 0..n}

IsPrefix(s, t) == Len(s) <= Len(t) /\ \A i \in DOMAIN s : s[i] = t[i]

MinOf(S) == CHOOSE x \in S : \A y \in S : x <= y

----------------------------------------------------------------------------
(* Value kinds (value.rs, ValueKind). *)

NoOp == "None"

KBlock(b) == [tag |-> "Block", id |-> b, n |-> 0]
KArgument(b, n) == [tag |-> "Argument", id |-> b, n |-> n]
KConst(c) == [tag |-> "Const", id |-> c, n |-> 0]
KPrimOp(p) == [tag |-> "PrimOp", id |-> p, n |-> 0]

\* SimplifyCfgPass::new: an empty substitution map, a fresh mangler and a
\* workspace arena; with them, the locals of a run of simplify_cfg (unset).
SimplifyCfgPass_new ==
    [pc |-> "idle",             \* the position of simplify_cfg
     map |-> {},                \* self.map, the pairs <<from, to>>
     bump |-> "Some",           \* self.bump: "Some" or "None" (taken)
     mangler |-> [start |-> 0, renames |-> {}, runs |-> 0],  \* Mangler::new()
     entry |-> 0,               \* let entry
     graph |-> [entry |-> 0, nodes |-> {}, succ |-> <<>>],  \* let graph
     live |-> <<>>,             \* let live: per block, its live values
     block_order |-> <<>>,      \* let block_order
     trees |-> {},              \* analysis.trees
     next |-> 0,                \* the position of the loop in block_order
     rewritten |-> <<>>,        \* the targets rewrite was called for, in order
     entry_sets |-> 0,          \* the calls of block_set_entry
     runs |-> 0,                \* the runs that returned
     before |-> [blocks |-> <<>>, values |-> <<>>, primops |-> <<>>, consts |-> <<>>],
                                \* the function when the run started
     input_valid |-> TRUE,      \* graph_validate_global when the run started
     history |-> <<>>]          \* the function reachable after each run

NoResult == [call |-> "new", term |-> "", reads |-> <<>>, a |-> 0, b |-> 0, ret |-> 0]

----------------------------------------------------------------------------
(* Function: read-only queries (function/mod.rs). *)

value_kind(value) == values[value].kind

primop_kind(primop) == primops[primop].op

primop_reads(primop) == primops[primop].reads

\* Mutant: the PrimOp's kind is not looked at.
value_list_length_any_primop(value) ==
    IF value_kind(value).tag = "PrimOp"
    THEN Len(primop_reads(value_kind(value).id))
    ELSE 1

value_list_length(value) ==
    IF value_kind(value).tag = "PrimOp"
          /\ primop_kind(value_kind(value).id) = "ValueList"
    THEN Len(primop_reads(value_kind(value).id))
    ELSE 1

\* Mutant: past the end of a value list, the value itself is looked at.
value_list_get_n_falls_through(value, n) ==
    IF value_kind(value).tag = "PrimOp"
          /\ primop_kind(value_kind(value).id) = "ValueList"
          /\ n < Len(primop_reads(value_kind(value).id))
    THEN primop_reads(value_kind(value).id)[n + 1]
    ELSE IF n = 0 THEN value ELSE 0

\* Option<Value>: 0 is None.  n is a 0-based position.
value_list_get_n(value, n) ==
    IF value_kind(value).tag = "PrimOp"
          /\ primop_kind(value_kind(value).id) = "ValueList"
    THEN (IF n < Len(primop_reads(value_kind(value).id))
          THEN primop_reads(value_kind(value).id)[n + 1]
          ELSE 0)
    ELSE IF n = 0 THEN value ELSE 0

\* Option<(Block, usize)>: <<0, 0>> is None.
value_argument(value) ==
    IF values[value].kind.tag = "Argument"
    THEN <<values[value].kind.id, values[value].kind.n>>
    ELSE <<0, 0>>

value_block(value) ==
    IF values[value].kind.tag = "Block" THEN values[value].kind.id ELSE 0

value_usages(value) == values[value].usages

\* Mutant: the operands of a PrimOp are not walked.
value_walk_nested_values_shallow(value) == <<value>>

\* The values visit() is called with, in call order, when visit never fails.
RECURSIVE value_walk_nested_values(_)
RECURSIVE primop_walk_nested_values(_, _)
value_walk_nested_values(value) ==
    <<value>> \o (IF values[value].kind.tag = "PrimOp"
                  THEN primop_walk_nested_values(values[value].kind.id, 1)
                  ELSE <<>>)

\* The loop over data.reads, from its i-th element on.
primop_walk_nested_values(primop, i) ==
    IF i > Len(primops[primop].reads) THEN <<>>
    ELSE value_walk_nested_values(primops[primop].reads[i])
            \o primop_walk_nested_values(primop, i + 1)

block_arg_n(block, num) ==
    IF num < Len(blocks[block].arguments)
    THEN blocks[block].arguments[num + 1]
    ELSE 0

block_kind(block) == blocks[block].op

block_location(block) == blocks[block].location

block_args(block) == blocks[block].arguments

block_reads(block) == blocks[block].reads

\* The loop "for n in 0..reads_len" over a read list, from its n-th read on.
RECURSIVE reads_walk_nested_values(_, _)
reads_walk_nested_values(reads, n) ==
    IF n > Len(reads) THEN <<>>
    ELSE value_walk_nested_values(reads[n])
            \o reads_walk_nested_values(reads, n + 1)

block_walk_nested_values(block) == reads_walk_nested_values(blocks[block].reads, 1)

\* TRUE when no assert! of graph_validate_block fails.
graph_validate_block(block) ==
    LET walked == block_walk_nested_values(block)
        succs == {value_kind(walked[i]).id :
                    i \in {j \in DOMAIN walked : value_kind(walked[j]).tag = "Block"}}
    IN  /\ \A succ_block \in succs :
              /\ succ_block \in blocks[block].successors
              /\ block \in blocks[succ_block].predecessors
        /\ Cardinality(blocks[block].successors) = Cardinality(succs)

graph_validate_global == \A block \in DOMAIN blocks : graph_validate_block(block)

----------------------------------------------------------------------------
(* Location container (function/location.rs).  An operation is an operator *)
(* giving the container after the call and the handle returned.            *)

UNKNOWN == 0

Spans == 0..MaxSpan

LocationTerminalData(file, line, names, span) ==
    [file |-> file, line |-> line, names |-> names, span |-> span]

\* AuxEq for LocationTerminalData: the derived PartialEq, field by field.
terminal_aux_eq(l, r) ==
    l.file = r.file /\ l.line = r.line /\ l.names = r.names /\ l.span = r.span

\* Mutant: the slices are compared by their lengths.
location_aux_eq_by_length(l, r) == Len(l) = Len(r)

\* AuxEq for LocationData: the two terminal slices are equal.
location_aux_eq(l, r) == l = r

\* DedupPrimaryMap::push: the handle of an equal entry, else a new entry.
terminals_push(arena, data) ==
    LET same == {i \in DOMAIN arena : terminal_aux_eq(arena[i], data)}
    IN  IF same # {} THEN [arena |-> arena, id |-> MinOf(same)]
        ELSE [arena |-> Append(arena, data), id |-> Len(arena) + 1]

locations_push(arena, data) ==
    LET same == {i \in DOMAIN arena : location_aux_eq(arena[i], data)}
    IN  IF same # {} THEN [arena |-> arena, id |-> MinOf(same)]
        ELSE [arena |-> Append(arena, data), id |-> Len(arena) + 1]

lookup(location) ==
    [i \in DOMAIN locations[location] |-> terminals[locations[location][i]].span]

location_empty ==
    LET l == locations_push(locations, <<>>)
    IN  [terminals |-> terminals, locations |-> l.arena, ret |-> l.id]

location_unknown ==
    LET t == terminals_push(terminals, LocationTerminalData(0, 0, 0, UNKNOWN))
        \* "terminals" with the new terminal pushed is built and dropped
        l == locations_push(locations, <<>>)
    IN  [terminals |-> t.arena, locations |-> l.arena, ret |-> l.id]

\* Mutant: the terminal is pushed but the location is made without it.
location_without_terminal(file, line, names, span) ==
    LET t == terminals_push(terminals, LocationTerminalData(file, line, names, span))
        l == locations_push(locations, <<>>)
    IN  [terminals |-> t.arena, locations |-> l.arena, ret |-> l.id]

location(file, line, names, span) ==
    LET t == terminals_push(terminals, LocationTerminalData(file, line, names, span))
        l == locations_push(locations, <<t.id>>)
    IN  [terminals |-> t.arena, locations |-> l.arena, ret |-> l.id]

\* found: codemap.get(span.source_id()) is Some; then the file map names the
\* file and the line of the span's start.
from_bytespan(found, fileName, lineIdx, span, names) ==
    IF found THEN location(fileName, lineIdx, names, span)
    ELSE location(0, 0, names, span)

\* Mutant: the terminals of top are put first.
concat_locations_top_first(bottom, top) ==
    LET new_terminals == locations[top] \o locations[bottom]
        l == locations_push(locations, new_terminals)
    IN  [terminals |-> terminals, locations |-> l.arena, ret |-> l.id]

concat_locations(bottom, top) ==
    LET new_terminals == locations[bottom] \o locations[top]
        l == locations_push(locations, new_terminals)
    IN  [terminals |-> terminals, locations |-> l.arena, ret |-> l.id]

\* Mutant: the terminals of top are put first, on a container likewise.
concat_locations_in_top_first(arena, bottom, top) ==
    locations_push(arena, arena[top] \o arena[bottom])

\* concat_locations on a container whose locations are arena.
concat_locations_in(arena, bottom, top) ==
    locations_push(arena, arena[bottom] \o arena[top])

----------------------------------------------------------------------------
(* Function: the operations that grow the arenas (function/mod.rs) and the *)
(* interning stores they push to.                                          *)

\* ValueMap::push: interns the kind; a new value has no usages.
values_push(arena, kind) ==
    LET same == {i \in DOMAIN arena : arena[i].kind = kind}
    IN  IF same # {} THEN [arena |-> arena, id |-> MinOf(same)]
        ELSE [arena |-> Append(arena, [kind |-> kind, usages |-> {}]),
              id |-> Len(arena) + 1]

\* ValueMap::get: Option<Value>.
values_get(arena, kind) ==
    LET same == {i \in DOMAIN arena : arena[i].kind = kind}
    IN  IF same # {} THEN MinOf(same) ELSE 0

block_value(block) == values_get(values, KBlock(block))

\* Mutant: the slot of the last block is taken again while that block has
\* neither arguments nor a terminator.
block_insert_with_span_reuse(span) ==
    LET loc == IF span # <<>> THEN location(0, 0, 0, span[1]) ELSE location_empty
        free == Len(blocks) > 0 /\ blocks[Len(blocks)].op = NoOp
                    /\ blocks[Len(blocks)].arguments = <<>>
        block == IF free THEN Len(blocks) ELSE Len(blocks) + 1
        data == [arguments |-> <<>>, op |-> NoOp, reads |-> <<>>,
                 predecessors |-> {}, successors |-> {}, location |-> loc.ret]
        v == values_push(values, KBlock(block))
    IN  [blocks |-> IF free THEN [blocks EXCEPT ![block] = data]
                    ELSE Append(blocks, data),
         values |-> v.arena,
         terminals |-> loc.terminals, locations |-> loc.locations, ret |-> block]

\* span is an Option<SourceSpan>: <<>> is None, <<s>> is Some(s).
block_insert_with_span(span) ==
    LET loc == IF span # <<>> THEN location(0, 0, 0, span[1]) ELSE location_empty
        block == Len(blocks) + 1
        data == [arguments |-> <<>>, op |-> NoOp, reads |-> <<>>,
                 predecessors |-> {}, successors |-> {}, location |-> loc.ret]
        v == values_push(values, KBlock(block))
    IN  [blocks |-> Append(blocks, data), values |-> v.arena,
         terminals |-> loc.terminals, locations |-> loc.locations, ret |-> block]

block_insert == block_insert_with_span(<<>>)

\* Mutant: the position is read after the argument is pushed.
block_arg_insert_late_position(block) ==
    LET arg_num == Len(blocks[block].arguments) + 1
        v == values_push(values, KArgument(block, arg_num))
    IN  [blocks |-> [blocks EXCEPT ![block].arguments = Append(@, v.id)],
         values |-> v.arena, ret |-> v.id]

block_arg_insert(block) ==
    LET arg_num == Len(blocks[block].arguments)
        v == values_push(values, KArgument(block, arg_num))
    IN  [blocks |-> [blocks EXCEPT ![block].arguments = Append(@, v.id)],
         values |-> v.arena, ret |-> v.id]

\* Mutant: only the kinds are compared.
primop_aux_eq_kind_only(l, r) == l.op = r.op

\* AuxEq for PrimOpData: same kind and equal read slices.
primop_aux_eq(l, r) ==
    IF l.op # r.op THEN FALSE ELSE l.reads = r.reads

----------------------------------------------------------------------------
(* Function builder (function/builder): the value constructors and the     *)
(* terminator installation, after sections 4.1, 4.3 and 4.5 of the         *)
(* specification.                                                          *)

\* DedupAuxPrimaryMap::push for PrimOps, with PrimOpData's AuxEq.
primops_push(arena, data) ==
    LET same == {i \in DOMAIN arena : primop_aux_eq(arena[i], data)}
    IN  IF same # {} THEN [arena |-> arena, id |-> MinOf(same)]
        ELSE [arena |-> Append(arena, data), id |-> Len(arena) + 1]

\* ConstantContainer: structurally equal constants share one id.
consts_push(arena, term) ==
    LET same == {i \in DOMAIN arena : arena[i] = term}
    IN  IF same # {} THEN [arena |-> arena, id |-> MinOf(same)]
        ELSE [arena |-> Append(arena, term), id |-> Len(arena) + 1]

\* prim_tuple, prim_value_list, ...: a Value pointing to a de-duplicated PrimOp.
prim_op(kind, reads) ==
    LET p == primops_push(primops, [op |-> kind, reads |-> reads])
        v == values_push(values, KPrimOp(p.id))
    IN  [primops |-> p.arena, values |-> v.arena, ret |-> v.id]

prim_tuple(args) == prim_op("Tuple", args)

prim_value_list(args) == prim_op("ValueList", args)

\* value(const_or_symbol): the Value for an interned constant.
value(atom) ==
    LET c == consts_push(consts, atom)
        v == values_push(values, KConst(c.id))
    IN  [consts |-> c.arena, values |-> v.arena, ret |-> v.id]

\* The blocks a read list names, directly or inside PrimOp operands.
reads_successors(reads) ==
    LET walked == reads_walk_nested_values(reads, 1)
    IN  {value_kind(walked[i]).id :
            i \in {j \in DOMAIN walked : value_kind(walked[j]).tag = "Block"}}

\* A terminator change of src: op and reads are replaced, and the successors
\* of src, the predecessors of the blocks it read and reads, and the usages of
\* the values it read and reads are recomputed from the new reads.
set_terminator(src, op, reads) ==
    LET old_succ == blocks[src].successors
        new_succ == reads_successors(reads)
        old_reads == Range(blocks[src].reads)
        new_reads == Range(reads)
    IN  [blocks |->
            [b \in DOMAIN blocks |->
                [blocks[b] EXCEPT
                    !.op = IF b = src THEN op ELSE @,
                    !.reads = IF b = src THEN reads ELSE @,
                    !.successors = IF b = src THEN new_succ ELSE @,
                    !.predecessors =
                        (@ \ (IF b \in old_succ THEN {src} ELSE {}))
                            \cup (IF b \in new_succ THEN {src} ELSE {})]],
         values |->
            [v \in DOMAIN values |->
                [values[v] EXCEPT
                    !.usages =
                        (@ \ (IF v \in old_reads THEN {src} ELSE {}))
                            \cup (IF v \in new_reads THEN {src} ELSE {})]]]

\* Mutant: the usages of the values that were read are left as they are.
block_clear_keeps_usages(block) ==
    [blocks |-> set_terminator(block, NoOp, <<>>).blocks, values |-> values]

\* block_clear(block): removes the terminator and its book-keeping.
block_clear(block) == set_terminator(block, NoOp, <<>>)

\* Mutant: the terminator in place is not looked at.
may_terminate_always(src) == TRUE

\* Installing a terminator requires the block to have none.
may_terminate(src) == blocks[src].op = NoOp

op_call_flow(src, target, args) ==
    set_terminator(src, "CallControlFlow", <<block_value(target)>> \o args)

op_if_bool(src, t, f, val) ==
    set_terminator(src, "IfBool", <<t, f, val>>)

op_unreachable(src) == set_terminator(src, "Unreachable", <<>>)

----------------------------------------------------------------------------
(* The builder as a state machine: a client calls builder operations on a  *)
(* function created empty by Function::new.                                *)

Init ==
    /\ blocks = <<>>
    /\ values = <<>>
    /\ primops = <<>>
    /\ consts = <<>>
    /\ terminals = <<>>
    /\ locations = <<>>
    /\ result = NoResult
    /\ aborted = FALSE
    /\ entry = 0
    /\ pass = SimplifyCfgPass_new

Call(name, a, b, ret) == [NoResult EXCEPT !.call = name, !.a = a, !.b = b, !.ret = ret]

BlockValues == {v \in DOMAIN values : values[v].kind.tag = "Block"}

TotalReads(bs) ==
    LET RECURSIVE Sum(_)
        Sum(i) == IF i > Len(bs) THEN 0 ELSE Len(bs[i].reads) + Sum(i + 1)
    IN  Sum(1)

BlockInsert(maxBlocks, maxValues) ==
    /\ ~aborted
    /\ Len(blocks) < maxBlocks
    /\ Len(values) < maxValues
    /\ LET r == block_insert
       IN  /\ blocks' = r.blocks
           /\ values' = r.values
           /\ terminals' = r.terminals
           /\ locations' = r.locations
           /\ result' = Call("block_insert", 0, 0, r.ret)
    /\ UNCHANGED <<passVars, primops, consts, aborted>>

BlockArgInsert(maxValues) ==
    /\ ~aborted
    /\ Len(values) < maxValues
    /\ \E block \in DOMAIN blocks :
         LET r == block_arg_insert(block)
         IN  /\ blocks' = r.blocks
             /\ values' = r.values
             /\ result' = Call("block_arg_insert", block, 0, r.ret)
    /\ UNCHANGED <<passVars, primops, consts, locVars, aborted>>

PrimOp(kinds, maxPrimOps, maxValues) ==
    /\ ~aborted
    /\ \E kind \in kinds, n \in OperandCounts :
         \E reads \in [1..n -> DOMAIN values] :
            LET r == prim_op(kind, reads)
            IN  /\ Len(r.primops) <= maxPrimOps
                /\ Len(r.values) <= maxValues
                /\ primops' = r.primops
                /\ values' = r.values
                /\ result' = [Call("prim_op", 0, 0, r.ret) EXCEPT !.term = kind, !.reads = reads]
    /\ UNCHANGED <<passVars, blocks, consts, locVars, aborted>>

Value(atoms, maxValues) ==
    /\ ~aborted
    /\ \E atom \in atoms :
         LET r == value(atom)
         IN  /\ Len(r.values) <= maxValues
             /\ consts' = r.consts
             /\ values' = r.values
             /\ result' = [Call("value", 0, 0, r.ret) EXCEPT !.term = atom]
    /\ UNCHANGED <<passVars, blocks, primops, locVars, aborted>>

\* An op_* call on a block that has a terminator: a contract violation.
Panic(src) ==
    /\ aborted' = TRUE
    /\ result' = Call("panic", src, 0, 0)
    /\ UNCHANGED <<passVars, funVars, locVars>>

\* The function has room for k more terminator reads.
RoomFor(k) == TotalReads(blocks) + k <= MaxReads

\* An op_* call that installs its terminator; r is the function after it.
Installed(name, r) ==
    /\ blocks' = r.blocks
    /\ values' = r.values
    /\ result' = Call(name, 0, 0, 0)
    /\ UNCHANGED <<passVars, primops, consts, locVars, aborted>>

OpCallFlow ==
    /\ ~aborted
    /\ \E src \in DOMAIN blocks :
         IF may_terminate(src)
         THEN \E n \in CallArgCounts :
                /\ RoomFor(1 + n)
                /\ \E target \in DOMAIN blocks, args \in [1..n -> DOMAIN values] :
                      Installed("op_call_flow", op_call_flow(src, target, args))
         ELSE Panic(src)

OpIfBool ==
    /\ ~aborted
    /\ \E src \in DOMAIN blocks :
         IF may_terminate(src)
         THEN /\ RoomFor(3)
              /\ \E t \in BlockValues, f \in BlockValues, val \in DOMAIN values :
                    Installed("op_if_bool", op_if_bool(src, t, f, val))
         ELSE Panic(src)

OpUnreachable ==
    /\ ~aborted
    /\ \E src \in DOMAIN blocks :
         IF may_terminate(src)
         THEN /\ RoomFor(0)
              /\ Installed("op_unreachable", op_unreachable(src))
         ELSE Panic(src)

BlockClear ==
    /\ ~aborted
    /\ \E block \in DOMAIN blocks :
         LET r == block_clear(block)
         IN  /\ blocks' = r.blocks
             /\ values' = r.values
             /\ result' = Call("block_clear", block, 0, 0)
    /\ UNCHANGED <<passVars, primops, consts, locVars, aborted>>

Next ==
    \/ BlockInsert(MaxBlocks, MaxValues)
    \/ BlockArgInsert(MaxValues)
    \/ PrimOp({"Tuple"}, MaxPrimOps, MaxValues)
    \/ Value({"a"}, MaxValues)
    \/ OpCallFlow
    \/ OpIfBool
    \/ OpUnreachable
    \/ BlockClear

Spec == Init /\ [][Next]_vars

(* Only the arenas are grown: blocks, arguments, PrimOps and constants. *)
NextValues ==
    \/ BlockInsert(ArenaBlocks, ArenaValues)
    \/ BlockArgInsert(ArenaValues)
    \/ PrimOp(PrimOpKinds, ArenaPrimOps, ArenaValues)
    \/ Value(Atoms, ArenaValues)

SpecValues == Init /\ [][NextValues]_vars

----------------------------------------------------------------------------
(* The location container as a state machine: a client calls the           *)
(* container's operations, and inserts blocks with or without a span.      *)

\* (file, line) as the caller or the code map gives them; 0 is None.
FileLines == {<<0, 0>>, <<1, 1>>}

LocationResult(name, a, b, r) ==
    /\ Len(r.terminals) <= MaxTerminals
    /\ Len(r.locations) <= MaxLocations
    /\ terminals' = r.terminals
    /\ locations' = r.locations
    /\ result' = Call(name, a, b, r.ret)
    /\ UNCHANGED <<passVars, funVars, aborted>>

LocationEmpty == LocationResult("location_empty", 0, 0, location_empty)

LocationUnknown == LocationResult("location_unknown", 0, 0, location_unknown)

Location ==
    \E fl \in FileLines, span \in Spans :
        LocationResult("location", fl[1], span, location(fl[1], fl[2], 0, span))

FromBytespan ==
    \E found \in BOOLEAN, span \in Spans :
        LocationResult("from_bytespan", 0, 0, from_bytespan(found, 1, 1, span, 0))

ConcatLocations ==
    \E bottom \in DOMAIN locations, top \in DOMAIN locations :
        /\ Len(locations[bottom]) + Len(locations[top]) <= MaxLocLen
        /\ LocationResult("concat_locations", bottom, top,
                          concat_locations(bottom, top))

BlockInsertWithSpan ==
    /\ Len(blocks) < LocBlocks
    /\ \E span \in {<<>>} \cup {<<sp>> : sp \in Spans} :
         LET r == block_insert_with_span(span)
         IN  /\ Len(r.terminals) <= MaxTerminals
             /\ Len(r.locations) <= MaxLocations
             /\ blocks' = r.blocks
             /\ values' = r.values
             /\ terminals' = r.terminals
             /\ locations' = r.locations
             /\ result' = Call("block_insert_with_span", Len(span), 0, r.ret)
    /\ UNCHANGED <<passVars, primops, consts, aborted>>

NextLoc ==
    \/ LocationEmpty
    \/ LocationUnknown
    \/ Location
    \/ FromBytespan
    \/ ConcatLocations
    \/ BlockInsertWithSpan

SpecLoc == Init /\ [][NextLoc]_vars

----------------------------------------------------------------------------
(* graph_validate_global as a function of the function state: it is        *)
(* applied to every state of two blocks, a PrimOp naming the second, and   *)
(* any reads, successors and predecessors.                                 *)

ValidateBlocks == {1, 2}

ValidateValues ==
    <<[kind |-> KBlock(1), usages |-> {}],
      [kind |-> KBlock(2), usages |-> {}],
      [kind |-> KPrimOp(1), usages |-> {}]>>

InitValidate ==
    /\ values = ValidateValues
    /\ primops = <<[op |-> "Tuple", reads |-> <<2>>]>>
    /\ consts = <<>>
    /\ terminals = <<>>
    /\ locations = << <<>> >>
    /\ \E rd \in [ValidateBlocks -> SeqsUpTo(DOMAIN ValidateValues, 1)],
          su \in [ValidateBlocks -> SUBSET ValidateBlocks],
          pr \in [ValidateBlocks -> SUBSET ValidateBlocks] :
         blocks = [b \in ValidateBlocks |->
                     [arguments |-> <<>>,
                      op |-> IF rd[b] = <<>> THEN NoOp ELSE "CallControlFlow",
                      reads |-> rd[b], predecessors |-> pr[b],
                      successors |-> su[b], location |-> 1]]
    /\ result = NoResult
    /\ aborted = FALSE
    /\ entry = 0
    /\ pass = SimplifyCfgPass_new

GraphValidateGlobal ==
    /\ result = NoResult
    /\ result' = Call("graph_validate_global", 0, 0,
                      IF graph_validate_global THEN 1 ELSE 0)
    /\ UNCHANGED <<passVars, funVars, locVars, aborted>>

SpecValidate == InitValidate /\ [][GraphValidateGlobal]_vars

----------------------------------------------------------------------------
(* The function as a value.  A pass makes many builder calls in one step,  *)
(* so the builder's operations are given once more as operators from a     *)
(* function f = [blocks, values, primops, consts] to the function after    *)
(* the call.                                                               *)

Fun == [blocks |-> blocks, values |-> values, primops |-> primops, consts |-> consts]

EmptyFun == [blocks |-> <<>>, values |-> <<>>, primops |-> <<>>, consts |-> <<>>]

block_value_in(f, block) == values_get(f.values, KBlock(block))

value_block_in(f, v) ==
    IF f.values[v].kind.tag = "Block" THEN f.values[v].kind.id ELSE 0

RECURSIVE value_walk_in(_, _)
RECURSIVE reads_walk_in(_, _, _)
value_walk_in(f, v) ==
    <<v>> \o (IF f.values[v].kind.tag = "PrimOp"
              THEN reads_walk_in(f, f.primops[f.values[v].kind.id].reads, 1)
              ELSE <<>>)

reads_walk_in(f, reads, n) ==
    IF n > Len(reads) THEN <<>>
    ELSE value_walk_in(f, reads[n]) \o reads_walk_in(f, reads, n + 1)

reads_successors_in(f, reads) ==
    LET walked == reads_walk_in(f, reads, 1)
    IN  {f.values[walked[i]].kind.id :
            i \in {j \in DOMAIN walked : f.values[walked[j]].kind.tag = "Block"}}

\* block_insert: the location of the new block is the empty location.
block_insert_in(f) ==
    LET block == Len(f.blocks) + 1
        data == [arguments |-> <<>>, op |-> NoOp, reads |-> <<>>,
                 predecessors |-> {}, successors |-> {}, location |-> 1]
        v == values_push(f.values, KBlock(block))
    IN  [f |-> [f EXCEPT !.blocks = Append(@, data), !.values = v.arena],
         ret |-> block]

block_arg_insert_in(f, block) ==
    LET arg_num == Len(f.blocks[block].arguments)
        v == values_push(f.values, KArgument(block, arg_num))
    IN  [f |-> [f EXCEPT !.blocks[block].arguments = Append(@, v.id),
                         !.values = v.arena],
         ret |-> v.id]

\* block_insert followed by n calls of block_arg_insert on the new block.
RECURSIVE block_args_insert_in(_, _, _)
block_args_insert_in(f, block, n) ==
    IF n = 0 THEN f
    ELSE block_args_insert_in(block_arg_insert_in(f, block).f, block, n - 1)

block_insert_args_in(f, n) ==
    LET r == block_insert_in(f)
    IN  [f |-> block_args_insert_in(r.f, r.ret, n), ret |-> r.ret]

value_in(f, atom) ==
    LET c == consts_push(f.consts, atom)
        v == values_push(f.values, KConst(c.id))
    IN  [f |-> [f EXCEPT !.consts = c.arena, !.values = v.arena], ret |-> v.id]

prim_op_in(f, kind, reads) ==
    LET p == primops_push(f.primops, [op |-> kind, reads |-> reads])
        v == values_push(f.values, KPrimOp(p.id))
    IN  [f |-> [f EXCEPT !.primops = p.arena, !.values = v.arena], ret |-> v.id]

\* block_clear(src) followed by the op_* call that installs op and reads.
set_terminator_in(f, src, op, reads) ==
    LET old_succ == f.blocks[src].successors
        new_succ == reads_successors_in(f, reads)
        old_reads == Range(f.blocks[src].reads)
        new_reads == Range(reads)
    IN  [f EXCEPT
            !.blocks =
                [b \in DOMAIN f.blocks |->
                    [f.blocks[b] EXCEPT
                        !.op = IF b = src THEN op ELSE @,
                        !.reads = IF b = src THEN reads ELSE @,
                        !.successors = IF b = src THEN new_succ ELSE @,
                        !.predecessors =
                            (@ \ (IF b \in old_succ THEN {src} ELSE {}))
                                \cup (IF b \in new_succ THEN {src} ELSE {})]],
            !.values =
                [v \in DOMAIN f.values |->
                    [f.values[v] EXCEPT
                        !.usages =
                            (@ \ (IF v \in old_reads THEN {src} ELSE {}))
                                \cup (IF v \in new_reads THEN {src} ELSE {})]]]


----------------------------------------------------------------------------
(* The functions handed to the pass.  A function is described block by     *)
(* block (the number of formals, the terminator, its operands) and built   *)
(* with the builder: the blocks and their formals first, then the          *)
(* terminators, interning the constants they name.                         *)

OArg(b, n) == [k |-> "arg", b |-> b, n |-> n, c |-> ""]
OBlock(b) == [k |-> "block", b |-> b, n |-> 0, c |-> ""]
OConst(c) == [k |-> "const", b |-> 0, n |-> 0, c |-> c]

Unreachable == [op |-> "Unreachable", reads |-> <<>>]

\* The handle of an operand in f; a constant is interned.
operand_in(f, o) ==
    IF o.k = "arg" THEN [f |-> f, ret |-> f.blocks[o.b].arguments[o.n + 1]]
    ELSE IF o.k = "block" THEN [f |-> f, ret |-> block_value_in(f, o.b)]
    ELSE value_in(f, o.c)

RECURSIVE operands_in(_, _, _)
operands_in(f, os, n) ==
    IF n > Len(os) THEN [f |-> f, reads |-> <<>>]
    ELSE LET r == operand_in(f, os[n])
             rest == operands_in(r.f, os, n + 1)
         IN  [f |-> rest.f, reads |-> <<r.ret>> \o rest.reads]

RECURSIVE insert_blocks_in(_, _, _)
insert_blocks_in(f, desc, n) ==
    IF n > Len(desc) THEN f
    ELSE insert_blocks_in(block_insert_args_in(f, desc[n].nargs).f, desc, n + 1)

RECURSIVE terminate_blocks_in(_, _, _)
terminate_blocks_in(f, desc, n) ==
    IF n > Len(desc) THEN f
    ELSE LET r == operands_in(f, desc[n].reads, 1)
         IN  terminate_blocks_in(set_terminator_in(r.f, n, desc[n].op, r.reads),
                                 desc, n + 1)

MkFunction(desc) == terminate_blocks_in(insert_blocks_in(EmptyFun, desc, 1), desc, 1)

\* The constant a block passes when it passes one.
ConstOf(b) == IF b % 2 = 0 THEN "1" ELSE "2"

\* The formals of block b, as operands.
Formals(nargs, b) == [n \in 1..nargs[b] |-> OArg(b, n - 1)]

\* The terminators block b may be given when the blocks have nargs formals:
\* unreachable; a call of g with b's formals, returning and throwing to the
\* continuation k the entry is given; a branch on k to two later blocks
\* without formals; a control-flow call of another block, passing b's own
\* formal or a constant for each formal of the callee.
Terminators(nargs, b) ==
    LET N == Len(nargs)
        k == OArg(1, 0)
        pass_one == {OConst(ConstOf(b))} \cup {OArg(b, 0) : x \in 1..nargs[b]}
    IN  {Unreachable}
        \cup {[op |-> "CallFunction",
               reads |-> <<OConst("g"), k, k>> \o Formals(nargs, b)]}
        \cup {[op |-> "IfBool", reads |-> <<OBlock(t), OBlock(e), k>>] :
                 <<t, e>> \in {p \in ((b + 1)..N) \X ((b + 1)..N) :
                                  p[1] < p[2] /\ nargs[p[1]] = 0 /\ nargs[p[2]] = 0}}
        \cup {[op |-> "CallControlFlow", reads |-> <<OBlock(t)>>] :
                 t \in {u \in 2..N : nargs[u] = 0}}
        \cup {[op |-> "CallControlFlow", reads |-> <<OBlock(t), a>>] :
                 <<t, a>> \in {u \in 2..N : nargs[u] = 1} \X pass_one}

\* The blocks a description reaches from its first block.
RECURSIVE DescReach(_, _)
DescReach(desc, seen) ==
    LET more == {o.b : o \in {p \in UNION {Range(desc[b].reads) : b \in seen} :
                                  p.k = "block"}}
    IN  IF more \subseteq seen THEN seen ELSE DescReach(desc, seen \cup more)

\* The descriptions of blocks b..Len(nargs), one terminator for each.
RECURSIVE DescriptionsFrom(_, _)
DescriptionsFrom(nargs, b) ==
    IF b > Len(nargs) THEN {<<>>}
    ELSE {<<[nargs |-> nargs[b], op |-> t.op, reads |-> t.reads]>> \o rest :
             t \in Terminators(nargs, b), rest \in DescriptionsFrom(nargs, b + 1)}

\* The descriptions of n blocks: the entry has the one formal k, and every
\* block is reached from the entry.
Descriptions(n) ==
    UNION {{d \in DescriptionsFrom(nargs, 1) : DescReach(d, {1}) = 1..n} :
              nargs \in {na \in [1..n -> 0..1] : na[1] = 1}}

----------------------------------------------------------------------------
(* Liveness and CFG analyses (section 4.6) and the discovery of chains     *)
(* (section 4.7, steps 1 and 2; simplify_cfg/analyze).                     *)

\* The elements of a set of handles, ascending.
RECURSIVE SortedSeq(_)
SortedSeq(S) == IF S = {} THEN <<>> ELSE <<MinOf(S)>> \o SortedSeq(S \ {MinOf(S)})

RECURSIVE ReachableFrom(_, _)
ReachableFrom(f, seen) ==
    LET more == UNION {f.blocks[b].successors : b \in seen}
    IN  IF more \subseteq seen THEN seen ELSE ReachableFrom(f, seen \cup more)

\* live_block_graph: the successors sets, filtered to the blocks reachable
\* from the entry.
live_block_graph(f, start) ==
    LET nodes == ReachableFrom(f, {start})
    IN  [entry |-> start, nodes |-> nodes,
         succ |-> [b \in nodes |-> f.blocks[b].successors]]

\* dfs_post_order_iter: a block is yielded when all the blocks first reached
\* through it have been.
RECURSIVE dfs_visit(_, _, _)
RECURSIVE dfs_children(_, _, _, _)
dfs_visit(graph, block, acc) ==
    IF block \in acc.seen THEN acc
    ELSE LET below == dfs_children(graph, SortedSeq(graph.succ[block]), 1,
                                   [seen |-> acc.seen \cup {block}, order |-> acc.order])
         IN  [seen |-> below.seen, order |-> Append(below.order, block)]

dfs_children(graph, children, i, acc) ==
    IF i > Len(children) THEN acc
    ELSE dfs_children(graph, children, i + 1, dfs_visit(graph, children[i], acc))

dfs_post_order(graph) ==
    dfs_visit(graph, graph.entry, [seen |-> {}, order |-> <<>>]).order

\* The blocks in reverse post-order: the order the driver does not take.
dfs_reverse_post_order(graph) ==
    LET po == dfs_post_order(graph)
    IN  [i \in DOMAIN po |-> po[Len(po) + 1 - i]]

\* The formals a read list names, directly or inside PrimOp operands.
reads_arguments_in(f, reads) ==
    {v \in Range(reads_walk_in(f, reads, 1)) : f.values[v].kind.tag = "Argument"}

\* live_values: for each live block, the formals read in the block or in a
\* successor and not defined by the block; the least fixed point.
RECURSIVE live_values_from(_, _, _)
live_values_from(f, graph, live) ==
    LET step == [b \in graph.nodes |->
                    (reads_arguments_in(f, f.blocks[b].reads)
                        \cup UNION {live[s] : s \in graph.succ[b]})
                    \ Range(f.blocks[b].arguments)]
    IN  IF step = live THEN live ELSE live_values_from(f, graph, step)

live_values(f, graph) == live_values_from(f, graph, [b \in graph.nodes |-> {}])

\* An argument of a chain edge: a formal of the calling block, a constant,
\* or a PrimOp whose leaves are such.
RECURSIVE forwards(_, _, _)
forwards(f, block, v) ==
    LET kind == f.values[v].kind
    IN  IF kind.tag = "Argument" THEN kind.id = block
        ELSE IF kind.tag = "Const" THEN TRUE
        ELSE IF kind.tag = "PrimOp"
        THEN \A i \in DOMAIN f.primops[kind.id].reads :
                forwards(f, block, f.primops[kind.id].reads[i])
        ELSE FALSE

\* The terminator of block is a chain edge.
is_chain_edge(f, block) ==
    /\ f.blocks[block].op = "CallControlFlow"
    /\ f.blocks[block].reads # <<>>
    /\ value_block_in(f, f.blocks[block].reads[1]) # 0
    /\ \A i \in 2..Len(f.blocks[block].reads) :
          forwards(f, block, f.blocks[block].reads[i])

chain_callee(f, block) == value_block_in(f, f.blocks[block].reads[1])

\* The block reached from block after n chain edges (the last block that
\* has none, when there are fewer).
RECURSIVE chain_walk(_, _, _)
chain_walk(f, block, n) ==
    IF n = 0 \/ ~is_chain_edge(f, block) THEN block
    ELSE chain_walk(f, chain_callee(f, block), n - 1)

\* The blocks of the cycle a chain block runs into; {} when it reaches a
\* target.
chain_cycle(f, block) ==
    LET n == Len(f.blocks)
    IN  IF ~is_chain_edge(f, chain_walk(f, block, n)) THEN {}
        ELSE {chain_walk(f, block, k) : k \in n..(2 * n)}

\* analyze_graph: the chains of the live-block graph.  A tree is recorded
\* under its target, a cycle under the first of its blocks; blocks holds
\* the blocks whose chain edges lead there.
analyze_graph(f, graph) ==
    LET sources == {b \in graph.nodes : is_chain_edge(f, b)}
        n == Len(f.blocks)
        target_of(b) == chain_walk(f, b, n)
        trees == {[target |-> t, cycle |-> FALSE,
                   blocks |-> {b \in sources : chain_cycle(f, b) = {} /\ target_of(b) = t}] :
                     t \in {target_of(b) : b \in {c \in sources : chain_cycle(f, c) = {}}}}
        cycles == {[target |-> MinOf(cy), cycle |-> TRUE,
                    blocks |-> {b \in sources : chain_cycle(f, b) = cy}] :
                     cy \in {chain_cycle(f, b) : b \in sources} \ {{}}}
    IN  trees \cup cycles

\* analysis.trees.get(block): Option, {} is None.
trees_get(trees, block) == {t \in trees : t.target = block}

----------------------------------------------------------------------------
(* The rewrite of one chain (section 4.7, step 3; simplify_cfg/rewrite and *)
(* chain_graph).                                                           *)

SleepForever == "Intrinsic(receive_wait_forever)"

\* env with the bindings of new added or replaced.
Override(env, new) ==
    [x \in DOMAIN env \cup DOMAIN new |-> IF x \in DOMAIN new THEN new[x] ELSE env[x]]

\* v with the values env binds replaced; a PrimOp is interned again with
\* its operands replaced.
RECURSIVE subst_in(_, _, _)
RECURSIVE subst_reads_in(_, _, _, _)
subst_in(f, env, v) ==
    IF v \in DOMAIN env THEN [f |-> f, ret |-> env[v]]
    ELSE IF f.values[v].kind.tag = "PrimOp"
    THEN LET data == f.primops[f.values[v].kind.id]
             r == subst_reads_in(f, env, data.reads, 1)
         IN  prim_op_in(r.f, data.op, r.reads)
    ELSE [f |-> f, ret |-> v]

subst_reads_in(f, env, reads, n) ==
    IF n > Len(reads) THEN [f |-> f, reads |-> <<>>]
    ELSE LET r == subst_in(f, env, reads[n])
             rest == subst_reads_in(r.f, env, reads, n + 1)
         IN  [f |-> rest.f, reads |-> <<r.ret>> \o rest.reads]

\* analyze_chain: the chain under target as the function now is: its
\* blocks and its entry edges, the chain blocks that are the function's
\* entry or are read by a live block outside the chain.
analyze_chain(target, f, graph, live, trees) ==
    LET tree == CHOOSE t \in trees : t.target = target
        entries == {b \in tree.blocks \cap graph.nodes :
                       \/ b = graph.entry
                       \/ \E p \in graph.nodes \ tree.blocks : b \in graph.succ[p]}
    IN  [target |-> target, cycle |-> tree.cycle, blocks |-> tree.blocks,
         entries |-> SortedSeq(entries)]

\* The renames along the chain edges from block to target: each formal of
\* a callee is bound to the value passed, in the frame of the first block.
\* The edges are those of g, the function as it was when the chain was
\* analysed; f is the function being rewritten.
RECURSIVE chain_renames_in(_, _, _, _, _, _)
chain_renames_in(g, f, block, target, env, fuel) ==
    IF block = target \/ fuel = 0 \/ ~is_chain_edge(g, block) THEN [f |-> f, env |-> env]
    ELSE LET callee == chain_callee(g, block)
             passed == subst_reads_in(f, env, Tail(g.blocks[block].reads), 1)
             formals == g.blocks[callee].arguments
             bound == [x \in {formals[i] : i \in DOMAIN formals \cap DOMAIN passed.reads} |->
                          passed.reads[CHOOSE i \in DOMAIN formals : formals[i] = x]]
         IN  chain_renames_in(g, passed.f, callee, target, Override(env, bound), fuel - 1)

\* The target's terminator is a call of its formals that can be made from
\* each entry: no block it reads has a formal of the chain live in it.
target_is_reusable(f, chain, live) ==
    LET t == f.blocks[chain.target]
        chain_formals == UNION {Range(f.blocks[b].arguments) :
                                   b \in chain.blocks \cup {chain.target}}
    IN  /\ t.op \in {"CallFunction", "CallControlFlow"}
        /\ Range(t.arguments) \subseteq Range(t.reads)
        /\ \A c \in reads_successors_in(f, t.reads) :
              c \in DOMAIN live => live[c] \cap chain_formals = {}

\* Mutant: only the first entry edge of a cycle is rewritten.
rewrite_cycle_in_first_entry(f, entries, i) ==
    IF i > 1 THEN f
    ELSE set_terminator_in(f, entries[i], SleepForever, <<>>)

\* Every entry edge of a cycle ends in the sleep-forever intrinsic.
RECURSIVE rewrite_cycle_in(_, _, _)
rewrite_cycle_in(f, entries, i) ==
    IF i > Len(entries) THEN f
    ELSE rewrite_cycle_in(set_terminator_in(f, entries[i], SleepForever, <<>>),
                          entries, i + 1)

\* Every entry edge makes the target's call with the values passed along
\* its path.
RECURSIVE rewrite_direct_in(_, _, _, _, _)
rewrite_direct_in(g, f, chain, entries, i) ==
    IF i > Len(entries) THEN f
    ELSE LET r == chain_renames_in(g, f, entries[i], chain.target, <<>>, Len(g.blocks))
             t == g.blocks[chain.target]
             reads == subst_reads_in(r.f, r.env, t.reads, 1)
         IN  rewrite_direct_in(g, set_terminator_in(reads.f, entries[i], t.op, reads.reads),
                               chain, entries, i + 1)

\* Every entry edge calls new_target with the values passed along its path
\* for the formals of the target.
RECURSIVE rewrite_call_in(_, _, _, _, _, _)
rewrite_call_in(g, f, chain, new_target, entries, i) ==
    IF i > Len(entries) THEN f
    ELSE LET r == chain_renames_in(g, f, entries[i], chain.target, <<>>, Len(g.blocks))
             args == subst_reads_in(r.f, r.env, g.blocks[chain.target].arguments, 1)
         IN  rewrite_call_in(g,
                 set_terminator_in(args.f, entries[i], "CallControlFlow",
                                   <<block_value_in(args.f, new_target)>> \o args.reads),
                 chain, new_target, entries, i + 1)

\* A new block with one formal for each formal of the target and a copy of
\* the target's terminator reading them; the renames of the old formals to
\* the new ones.
mint_target_in(f, target) ==
    LET old == f.blocks[target].arguments
        n == block_insert_args_in(f, Len(old))
        new == n.f.blocks[n.ret].arguments
        renames == [x \in Range(old) |-> new[CHOOSE i \in DOMAIN old : old[i] = x]]
        reads == subst_reads_in(n.f, renames, n.f.blocks[target].reads, 1)
    IN  [f |-> set_terminator_in(reads.f, n.ret, n.f.blocks[target].op, reads.reads),
         ret |-> n.ret,
         renames |-> {<<x, renames[x]>> : x \in Range(old)}]

\* rewrite: the function and the substitution map after the chain's entry
\* edges are rewritten.
rewrite(f, map, chain, live) ==
    IF chain.entries = <<>> THEN [f |-> f, map |-> map]
    ELSE IF chain.cycle
    THEN [f |-> rewrite_cycle_in(f, chain.entries, 1), map |-> map]
    ELSE IF target_is_reusable(f, chain, live)
    THEN [f |-> rewrite_direct_in(f, f, chain, chain.entries, 1), map |-> map]
    ELSE LET m == mint_target_in(f, chain.target)
         IN  [f |-> rewrite_call_in(f, m.f, chain, m.ret, chain.entries, 1),
              map |-> {p \in map : \A q \in m.renames : q[1] # p[1]} \cup m.renames]

----------------------------------------------------------------------------
(* Mangler (section 4.8): the function reachable from a start block is     *)
(* copied under fresh blocks, with the renames applied.                    *)

\* start: a new mangling from the block; the renames of an earlier one are
\* dropped.
mangler_start(mangler, block) == [mangler EXCEPT !.start = block, !.renames = {}]

\* add_rename: a later rename of a value replaces an earlier one.
mangler_add_rename(mangler, from, to) ==
    [mangler EXCEPT !.renames = {p \in @ : p[1] # from} \cup {<<from, to>>}]

\* The value v is renamed to, through at most fuel renames; 0 when the
\* renames do not end.
RECURSIVE mangler_resolve(_, _, _)
mangler_resolve(renames, v, fuel) ==
    IF \A p \in renames : p[1] # v THEN v
    ELSE IF fuel = 0 THEN 0
    ELSE mangler_resolve(renames, (CHOOSE p \in renames : p[1] = v)[2], fuel - 1)

\* Mutant: a value is renamed once.
mangler_map_one_step(renames, v) ==
    IF \A p \in renames : p[1] # v THEN v
    ELSE (CHOOSE p \in renames : p[1] = v)[2]

\* The value v is renamed to, to a fixed point.
mangler_map(renames, v) == mangler_resolve(renames, v, Cardinality(renames))

\* The substitution map is acyclic.
mangler_acyclic(renames) == \A p \in renames : mangler_map(renames, p[1]) # 0

\* The values a read names after the renames, operands of PrimOps included.
RECURSIVE mangled_walk(_, _, _)
RECURSIVE mangled_reads_walk(_, _, _, _)
mangled_walk(f, renames, v) ==
    LET r == mangler_map(renames, v)
    IN  <<r>> \o (IF f.values[r].kind.tag = "PrimOp"
                  THEN mangled_reads_walk(f, renames, f.primops[f.values[r].kind.id].reads, 1)
                  ELSE <<>>)

mangled_reads_walk(f, renames, reads, n) ==
    IF n > Len(reads) THEN <<>>
    ELSE mangled_walk(f, renames, reads[n]) \o mangled_reads_walk(f, renames, reads, n + 1)

\* The blocks the terminator of block names after the renames, in the order
\* of its reads.
mangled_callees(f, renames, block) ==
    LET walked == mangled_reads_walk(f, renames, f.blocks[block].reads, 1)
    IN  SelectSeq([i \in DOMAIN walked |-> value_block_in(f, walked[i])],
                  LAMBDA b : b # 0)

RECURSIVE mangler_visit(_, _, _, _)
RECURSIVE mangler_visit_all(_, _, _, _, _)

\* Mutant: a block is copied again each time it is met, up to the number of
\* blocks of the function.
mangler_visit_again(f, renames, block, order) ==
    IF Len(order) >= Len(f.blocks) THEN order
    ELSE mangler_visit_all(f, renames, mangled_callees(f, renames, block), 1,
                           Append(order, block))

\* The blocks to copy, depth-first from the start, each once.
mangler_visit(f, renames, block, order) ==
    IF block \in Range(order) THEN order
    ELSE mangler_visit_all(f, renames, mangled_callees(f, renames, block), 1,
                           Append(order, block))

mangler_visit_all(f, renames, callees, i, order) ==
    IF i > Len(callees) THEN order
    ELSE mangler_visit_all(f, renames, callees, i + 1,
                           mangler_visit(f, renames, callees[i], order))

\* A fresh block with as many formals for each block of order; copy[i] is
\* the copy of order[i].
RECURSIVE mangler_insert_in(_, _, _)
mangler_insert_in(f, order, i) ==
    IF i > Len(order) THEN [f |-> f, copy |-> <<>>]
    ELSE LET n == block_insert_args_in(f, Len(f.blocks[order[i]].arguments))
             rest == mangler_insert_in(n.f, order, i + 1)
         IN  [f |-> rest.f, copy |-> <<n.ret>> \o rest.copy]

copy_of(order, copy, block) == copy[CHOOSE i \in DOMAIN order : order[i] = block]

\* The value that stands for v in the copy: v after the renames, a copied
\* block or a formal of one replaced by the copy's, a PrimOp interned again
\* with its operands so replaced.
RECURSIVE mangler_value_in(_, _, _, _, _)
RECURSIVE mangler_reads_in(_, _, _, _, _, _)
mangler_value_in(f, renames, order, copy, v) ==
    LET r == mangler_map(renames, v)
        kind == f.values[r].kind
    IN  IF kind.tag = "Block" /\ kind.id \in Range(order)
        THEN [f |-> f, ret |-> block_value_in(f, copy_of(order, copy, kind.id))]
        ELSE IF kind.tag = "Argument" /\ kind.id \in Range(order)
        THEN [f |-> f, ret |-> f.blocks[copy_of(order, copy, kind.id)].arguments[kind.n + 1]]
        ELSE IF kind.tag = "PrimOp"
        THEN LET rs == mangler_reads_in(f, renames, order, copy, f.primops[kind.id].reads, 1)
             IN  prim_op_in(rs.f, f.primops[kind.id].op, rs.reads)
        ELSE [f |-> f, ret |-> r]

mangler_reads_in(f, renames, order, copy, reads, n) ==
    IF n > Len(reads) THEN [f |-> f, reads |-> <<>>]
    ELSE LET r == mangler_value_in(f, renames, order, copy, reads[n])
             rest == mangler_reads_in(r.f, renames, order, copy, reads, n + 1)
         IN  [f |-> rest.f, reads |-> <<r.ret>> \o rest.reads]

RECURSIVE mangler_terminate_in(_, _, _, _, _)
mangler_terminate_in(f, renames, order, copy, i) ==
    IF i > Len(order) THEN f
    ELSE LET rs == mangler_reads_in(f, renames, order, copy, f.blocks[order[i]].reads, 1)
         IN  mangler_terminate_in(
                 set_terminator_in(rs.f, copy[i], f.blocks[order[i]].op, rs.reads),
                 renames, order, copy, i + 1)

\* run: the function with the copies, and the copy of the start block.
mangler_run(mangler, f) ==
    LET order == mangler_visit(f, mangler.renames, mangler.start, <<>>)
        n == mangler_insert_in(f, order, 1)
    IN  [f |-> mangler_terminate_in(n.f, mangler.renames, order, n.copy, 1),
         ret |-> n.copy[1]]

----------------------------------------------------------------------------
(* The function reachable from a block, up to the numbering of handles:    *)
(* the blocks in the order a depth-first walk along the reads first meets  *)
(* them, each with its number of formals, its terminator and its reads,    *)
(* a block or a formal named by its place in that order.                   *)

canon_operand(f, order, v) ==
    LET kind == f.values[v].kind
        place(b) == CHOOSE i \in DOMAIN order : order[i] = b
    IN  IF kind.tag = "Block" /\ kind.id \in Range(order) THEN OBlock(place(kind.id))
        ELSE IF kind.tag = "Argument" /\ kind.id \in Range(order)
        THEN OArg(place(kind.id), kind.n)
        ELSE IF kind.tag = "Const" THEN OConst(f.consts[kind.id])
        ELSE [k |-> "other", b |-> v, n |-> 0, c |-> ""]

Canon(f, start) ==
    LET order == mangler_visit(f, {}, start, <<>>)
    IN  [i \in DOMAIN order |->
            [nargs |-> Len(f.blocks[order[i]].arguments),
             op |-> f.blocks[order[i]].op,
             reads |-> [j \in DOMAIN f.blocks[order[i]].reads |->
                           canon_operand(f, order, f.blocks[order[i]].reads[j])]]]

----------------------------------------------------------------------------
(* simplify_cfg (simplify_cfg/mod.rs) as a state machine: one step for     *)
(* each phase of a run, and one for each iteration of the loop over the    *)
(* block order.                                                            *)

\* Mutant: the blocks are taken in reverse post-order.
block_order_reversed(graph) == dfs_reverse_post_order(graph)

\* let block_order: the post-order of the live-block graph.
block_order(graph) == dfs_post_order(graph)

\* The function after f replaces the one of the state.
FunBecomes(f) ==
    /\ blocks' = f.blocks
    /\ values' = f.values
    /\ primops' = f.primops
    /\ consts' = f.consts

\* A failed unwrap or expect.
PassPanics ==
    /\ aborted' = TRUE
    /\ pass' = [pass EXCEPT !.pc = "panic"]
    /\ result' = Call("panic", 0, 0, 0)
    /\ UNCHANGED <<funVars, locVars, entry>>

\* Lines 117-130: the workspace arena is taken, and the entry, the
\* live-block graph, the live values and the block order are read.
PassStart(maxRuns) ==
    /\ ~aborted
    /\ pass.pc = "idle"
    /\ pass.runs < maxRuns
    /\ IF pass.bump = "None" \/ entry = 0 THEN PassPanics
       ELSE \E graph \in {live_block_graph(Fun, entry)} :
                /\ pass' = [pass EXCEPT
                               !.pc = "analyze",
                               !.bump = "None",
                               !.entry = entry,
                               !.graph = graph,
                               !.live = live_values(Fun, graph),
                               !.block_order = block_order(graph),
                               !.trees = {},
                               !.next = 0,
                               !.rewritten = <<>>,
                               !.before = Fun,
                               !.input_valid = graph_validate_global]
                /\ result' = Call("simplify_cfg", 0, 0, 0)
                /\ UNCHANGED <<funVars, locVars, entry, aborted>>

\* Line 133: analyze_graph.
AnalyzeGraph ==
    /\ pass.pc = "analyze"
    /\ pass' = [pass EXCEPT !.pc = "rewrite",
                            !.trees = analyze_graph(Fun, pass.graph),
                            !.next = 1]
    /\ result' = Call("analyze_graph", 0, 0, 0)
    /\ UNCHANGED <<funVars, locVars, entry, aborted>>

\* The chain's target is inlined into its entry edges: neither a cycle nor
\* a target that needs a new block.
inlines(f, chain, live) ==
    /\ chain.entries # <<>>
    /\ ~chain.cycle
    /\ target_is_reusable(f, chain, live)

\* The locations of the rewritten entries: for each, the concatenation of
\* the target's location and its own; of gives the location of each block.
RECURSIVE rewrite_locations_in(_, _, _, _, _)
rewrite_locations_in(arena, of, target, entries, i) ==
    IF i > Len(entries) THEN [locations |-> arena, of |-> of]
    ELSE LET l == concat_locations_in(arena, of[target], of[entries[i]])
         IN  rewrite_locations_in(l.arena, [of EXCEPT ![entries[i]] = l.id],
                                  target, entries, i + 1)

\* The function becomes f, and when the chain's target was inlined the
\* rewritten entries get their locations.
RewrittenBecomes(f, chain, inlined) ==
    \E l \in {IF inlined
              THEN rewrite_locations_in(locations,
                                        [b \in DOMAIN blocks |-> blocks[b].location],
                                        chain.target, chain.entries, 1)
              ELSE [locations |-> locations,
                    of |-> [b \in DOMAIN blocks |-> blocks[b].location]]} :
        /\ blocks' = [b \in DOMAIN f.blocks |->
                         IF b \in DOMAIN l.of
                         THEN [f.blocks[b] EXCEPT !.location = l.of[b]]
                         ELSE f.blocks[b]]
        /\ values' = f.values
        /\ primops' = f.primops
        /\ consts' = f.consts
        /\ locations' = l.locations
        /\ terminals' = terminals

\* Mutant: only the first chain of a run is rewritten.
RewriteChain_first_only ==
    /\ pass.pc = "rewrite"
    /\ pass.next <= Len(pass.block_order)
    /\ LET target == pass.block_order[pass.next]
       IN  /\ trees_get(pass.trees, target) # {}
           /\ LET graph == live_block_graph(Fun, entry)
                  chain_graph == analyze_chain(target, Fun, graph, pass.live, pass.trees)
              IN  \E r \in {IF pass.rewritten = <<>>
                              THEN rewrite(Fun, pass.map, chain_graph, pass.live)
                              ELSE [f |-> Fun, map |-> pass.map]} :
                  /\ RewrittenBecomes(r.f, chain_graph,
                                      pass.rewritten = <<>>
                                         /\ inlines(Fun, chain_graph, pass.live))
                  /\ pass' = [pass EXCEPT !.map = r.map,
                                          !.next = @ + 1,
                                          !.rewritten = Append(@, target)]
                  /\ result' = Call("rewrite", target, 0, 0)
    /\ UNCHANGED <<entry, aborted>>

\* Mutant: the chain analysis is made again after each rewrite.
RewriteChain_analysed_again ==
    /\ pass.pc = "rewrite"
    /\ pass.next <= Len(pass.block_order)
    /\ LET target == pass.block_order[pass.next]
       IN  /\ trees_get(pass.trees, target) # {}
           /\ LET graph == live_block_graph(Fun, entry)
                  chain_graph == analyze_chain(target, Fun, graph, pass.live, pass.trees)
              IN  \E r \in {rewrite(Fun, pass.map, chain_graph, pass.live)} :
                  /\ RewrittenBecomes(r.f, chain_graph,
                                      inlines(Fun, chain_graph, pass.live))
                  /\ pass' = [pass EXCEPT
                                 !.map = r.map,
                                 !.trees = analyze_graph(r.f, live_block_graph(r.f, entry)),
                                 !.next = @ + 1,
                                 !.rewritten = Append(@, target)]
                  /\ result' = Call("rewrite", target, 0, 0)
    /\ UNCHANGED <<entry, aborted>>

\* Mutant: the iteration goes on without rewriting the chain.
RewriteChain_without_rewrite ==
    /\ pass.pc = "rewrite"
    /\ pass.next <= Len(pass.block_order)
    /\ trees_get(pass.trees, pass.block_order[pass.next]) # {}
    /\ pass' = [pass EXCEPT !.next = @ + 1,
                            !.rewritten = Append(@, pass.block_order[pass.next])]
    /\ result' = Call("rewrite", pass.block_order[pass.next], 0, 0)
    /\ UNCHANGED <<funVars, locVars, entry, aborted>>

\* Lines 137-153, an iteration for a block that is the target of a chain:
\* the chain is analysed on the live-block graph as it now is, and
\* rewritten.
RewriteChain ==
    /\ pass.pc = "rewrite"
    /\ pass.next <= Len(pass.block_order)
    /\ LET target == pass.block_order[pass.next]
       IN  /\ trees_get(pass.trees, target) # {}
           /\ LET graph == live_block_graph(Fun, entry)
                  chain_graph == analyze_chain(target, Fun, graph, pass.live, pass.trees)
              IN  \E r \in {rewrite(Fun, pass.map, chain_graph, pass.live)} :
                  /\ RewrittenBecomes(r.f, chain_graph,
                                      inlines(Fun, chain_graph, pass.live))
                  /\ pass' = [pass EXCEPT !.map = r.map,
                                          !.next = @ + 1,
                                          !.rewritten = Append(@, target)]
                  /\ result' = Call("rewrite", target, 0, 0)
    /\ UNCHANGED <<entry, aborted>>

\* Lines 137-138, an iteration for a block that is no chain's target.
NoChain ==
    /\ pass.pc = "rewrite"
    /\ pass.next <= Len(pass.block_order)
    /\ trees_get(pass.trees, pass.block_order[pass.next]) = {}
    /\ pass' = [pass EXCEPT !.next = @ + 1]
    /\ result' = Call("no_chain", pass.block_order[pass.next], 0, 0)
    /\ UNCHANGED <<funVars, locVars, entry, aborted>>

\* The pairs of map in the order of their keys: BTreeMap::iter.
map_iter(map) ==
    LET keys == SortedSeq({p[1] : p \in map})
    IN  [i \in DOMAIN keys |-> CHOOSE p \in map : p[1] = keys[i]]

RECURSIVE add_renames(_, _, _)
add_renames(mangler, pairs, i) ==
    IF i > Len(pairs) THEN mangler
    ELSE add_renames(mangler_add_rename(mangler, pairs[i][1], pairs[i][2]), pairs, i + 1)

\* Mutant: the mangler is started, and no pair of the map is registered.
MangleStart_without_renames ==
    /\ pass.pc = "rewrite"
    /\ pass.next > Len(pass.block_order)
    /\ pass' = [pass EXCEPT !.pc = "mangle",
                            !.mangler = mangler_start(@, pass.entry)]
    /\ result' = Call("mangler_start", pass.entry, 0, 0)
    /\ UNCHANGED <<funVars, locVars, entry, aborted>>

\* Lines 195-198, after the loop: the mangler is started from the entry
\* read at the start, and every pair of the map is registered.
MangleStart ==
    /\ pass.pc = "rewrite"
    /\ pass.next > Len(pass.block_order)
    /\ pass' = [pass EXCEPT
                   !.pc = "mangle",
                   !.mangler = add_renames(mangler_start(@, pass.entry),
                                           map_iter(pass.map), 1)]
    /\ result' = Call("mangler_start", pass.entry, 0, 0)
    /\ UNCHANGED <<funVars, locVars, entry, aborted>>

\* Mutant: the map is left as it is when the run returns.
MangleRun_keeps_map ==
    /\ pass.pc = "mangle"
    /\ \E r \in {mangler_run(pass.mangler, Fun)} :
           /\ FunBecomes(r.f)
           /\ entry' = r.ret
           /\ pass' = [pass EXCEPT
                          !.pc = "idle",
                          !.mangler.runs = @ + 1,
                          !.entry_sets = @ + 1,
                          !.bump = "Some",
                          !.runs = @ + 1,
                          !.history = Append(@, Canon(r.f, r.ret))]
           /\ result' = Call("mangler_run", 0, 0, r.ret)
    /\ UNCHANGED <<locVars, aborted>>

\* Mutant: the entry is set to the block after the one the mangler returns.
MangleRun_entry_off_by_one ==
    /\ pass.pc = "mangle"
    /\ \E r \in {mangler_run(pass.mangler, Fun)} :
           /\ FunBecomes(r.f)
           /\ entry' = Len(r.f.blocks) + 1
           /\ pass' = [pass EXCEPT
                          !.pc = "idle",
                          !.mangler.runs = @ + 1,
                          !.entry_sets = @ + 1,
                          !.map = {},
                          !.bump = "Some",
                          !.runs = @ + 1,
                          !.history = Append(@, Canon(r.f, r.ret))]
           /\ result' = Call("mangler_run", 0, 0, r.ret)
    /\ UNCHANGED <<locVars, aborted>>

\* Lines 211-230: the mangler runs, the entry is set to the block it
\* returns, the map is cleared and the workspace arena reset and put back.
MangleRun ==
    /\ pass.pc = "mangle"
    /\ IF ~mangler_acyclic(pass.mangler.renames) THEN PassPanics
       ELSE \E r \in {mangler_run(pass.mangler, Fun)} :
                /\ FunBecomes(r.f)
                /\ entry' = r.ret
                /\ pass' = [pass EXCEPT
                               !.pc = "idle",
                               !.mangler.runs = @ + 1,
                               !.entry_sets = @ + 1,
                               !.map = {},
                               !.bump = "Some",
                               !.runs = @ + 1,
                               !.history = Append(@, Canon(r.f, r.ret))]
                /\ result' = Call("mangler_run", 0, 0, r.ret)
                /\ UNCHANGED <<locVars, aborted>>

\* A function built from a description, its first block the entry, and a
\* new pass object.
InitPass ==
    /\ \E n \in 1..PassBlocks :
         \E desc \in Descriptions(n) :
            \E f \in {MkFunction(desc)} :
                /\ blocks = f.blocks
                /\ values = f.values
                /\ primops = f.primops
                /\ consts = f.consts
    /\ terminals = <<>>
    /\ locations = << <<>> >>
    /\ result = NoResult
    /\ aborted = FALSE
    /\ entry = 1
    /\ pass = SimplifyCfgPass_new

NextPass ==
    \/ PassStart(PassRuns)
    \/ AnalyzeGraph
    \/ RewriteChain
    \/ NoChain
    \/ MangleStart
    \/ MangleRun

SpecPass == InitPass /\ [][NextPass]_vars

\* A function handed to the pass whose blocks have each a location of
\* their own: block b has the one terminal of span b.
InitPassLoc ==
    /\ \E n \in 1..LocPassBlocks :
         \E desc \in Descriptions(n) :
            \E f \in {MkFunction(desc)} :
                /\ blocks = [b \in DOMAIN f.blocks |->
                                [f.blocks[b] EXCEPT !.location = b + 1]]
                /\ values = f.values
                /\ primops = f.primops
                /\ consts = f.consts
                /\ terminals = [b \in 1..n |-> LocationTerminalData(0, 0, 0, b)]
                /\ locations = << <<>> >> \o [b \in 1..n |-> <<b>>]
    /\ result = NoResult
    /\ aborted = FALSE
    /\ entry = 1
    /\ pass = SimplifyCfgPass_new

NextPassLoc ==
    \/ PassStart(LocPassRuns)
    \/ AnalyzeGraph
    \/ RewriteChain
    \/ NoChain
    \/ MangleStart
    \/ MangleRun

SpecPassLoc == InitPassLoc /\ [][NextPassLoc]_vars

\* f with the predecessors of block forgotten: its callers still have it
\* among their successors, and graph_validate_global asserts.
without_predecessors(f, block) ==
    [f EXCEPT !.blocks[block].predecessors = {}]

\* A function whose predecessor sets do not mirror its successor sets, and
\* a new pass object.
InitPassInvalid ==
    /\ \E n \in 1..InvalidBlocks :
         \E desc \in Descriptions(n) :
            \E block \in 1..n, f \in {MkFunction(desc)} :
                   /\ f.blocks[block].predecessors # {}
                   /\ blocks = without_predecessors(f, block).blocks
                   /\ values = f.values
                   /\ primops = f.primops
                   /\ consts = f.consts
    /\ terminals = <<>>
    /\ locations = << <<>> >>
    /\ result = NoResult
    /\ aborted = FALSE
    /\ entry = 1
    /\ pass = SimplifyCfgPass_new

SpecPassInvalid == InitPassInvalid /\ [][NextPass]_vars

----------------------------------------------------------------------------
(* The mangler on its own: started from the entry of a function, given     *)
(* renames, and run.                                                       *)

\* The values a rename is registered for: the formals.
RenameKeys == {v \in DOMAIN values : values[v].kind.tag = "Argument"}

\* Mangler::start from the function's entry.
ManglerStart ==
    /\ pass.pc = "idle"
    /\ pass.mangler.runs = 0
    /\ pass' = [pass EXCEPT !.pc = "mangle",
                            !.entry = entry,
                            !.before = Fun,
                            !.mangler = mangler_start(@, entry)]
    /\ result' = Call("mangler_start", entry, 0, 0)
    /\ UNCHANGED <<funVars, locVars, entry, aborted>>

\* Mangler::add_rename.
ManglerAddRename(maxRenames) ==
    /\ pass.pc = "mangle"
    /\ Cardinality(pass.mangler.renames) < maxRenames
    /\ \E from \in RenameKeys, to \in DOMAIN values :
          /\ from # to
          /\ \A p \in pass.mangler.renames : p[1] # from
          /\ pass' = [pass EXCEPT !.mangler = mangler_add_rename(@, from, to)]
          /\ result' = Call("mangler_add_rename", from, to, 0)
    /\ UNCHANGED <<funVars, locVars, entry, aborted>>

\* Mangler::run, and the entry set to the block it returns; with renames
\* that do not end the mangler refuses.
ManglerRun ==
    /\ pass.pc = "mangle"
    /\ IF ~mangler_acyclic(pass.mangler.renames) THEN PassPanics
       ELSE \E r \in {mangler_run(pass.mangler, Fun)} :
                /\ FunBecomes(r.f)
                /\ entry' = r.ret
                /\ pass' = [pass EXCEPT !.pc = "idle",
                                        !.mangler.runs = @ + 1,
                                        !.history = Append(@, Canon(r.f, r.ret))]
                /\ result' = Call("mangler_run", 0, 0, r.ret)
                /\ UNCHANGED <<locVars, aborted>>

InitMangle ==
    /\ \E n \in 1..MangleBlocks :
         \E desc \in Descriptions(n) :
            \E f \in {MkFunction(desc)} :
                /\ blocks = f.blocks
                /\ values = f.values
                /\ primops = f.primops
                /\ consts = f.consts
    /\ terminals = <<>>
    /\ locations = << <<>> >>
    /\ result = NoResult
    /\ aborted = FALSE
    /\ entry = 1
    /\ pass = SimplifyCfgPass_new

NextMangle ==
    \/ ManglerStart
    \/ ManglerAddRename(MaxRenames)
    \/ ManglerRun

SpecMangle == InitMangle /\ [][NextMangle]_vars

\* The mangler started and run with no rename.
InitIdentity ==
    /\ \E n \in 1..IdentityBlocks :
         \E desc \in Descriptions(n) :
            \E f \in {MkFunction(desc)} :
                /\ blocks = f.blocks
                /\ values = f.values
                /\ primops = f.primops
                /\ consts = f.consts
    /\ terminals = <<>>
    /\ locations = << <<>> >>
    /\ result = NoResult
    /\ aborted = FALSE
    /\ entry = 1
    /\ pass = SimplifyCfgPass_new

NextIdentity ==
    \/ ManglerStart
    \/ ManglerRun

SpecIdentity == InitIdentity /\ [][NextIdentity]_vars

----------------------------------------------------------------------------
(* The textual printer of terminators (text/printer/operation.rs).         *)
(*                                                                         *)
(* Here a terminator kind is a record: its variant, and the payload of     *)
(* the variants that have one.  A document is the sequence of its texts    *)
(* and of the uses of values it prints, in order, without the white space  *)
(* of the layout.                                                          *)

OpKind(tag) == [tag |-> tag, branches |-> <<>>, n |-> 0, name |-> ""]
OpMatch(branches) == [OpKind("Match") EXCEPT !.branches = branches]
OpUnpackValueList(n) == [OpKind("UnpackValueList") EXCEPT !.n = n]
OpIntrinsic(name) == [OpKind("Intrinsic") EXCEPT !.name = name]

MatchKind(kind) == [kind |-> kind, ty |-> "", arity |-> 0]
MatchType(ty) == [MatchKind("Type") EXCEPT !.ty = ty]
MatchTuple(arity) == [MatchKind("Tuple") EXCEPT !.arity = arity]

Text(s) == [text |-> s, value |-> 0, num |-> 0]
TextNum(s, n) == [text |-> s, value |-> 0, num |-> n]
\* value_use_to_doc: the name of the value where it is used.
value_use_to_doc(v) == [text |-> "", value |-> v, num |-> 0]

Printed(doc) == [panic |-> FALSE, doc |-> doc]
PrinterPanics == [panic |-> TRUE, doc |-> <<>>]

\* arena.intersperse(vs.map(value_use_to_doc), ",").parens()
RECURSIVE intersperse(_, _)
intersperse(vs, n) ==
    IF n > Len(vs) THEN <<>>
    ELSE (IF n > 1 THEN <<Text(",")>> ELSE <<>>)
            \o <<value_use_to_doc(vs[n])>> \o intersperse(vs, n + 1)

parens(vs) == <<Text("(")>> \o intersperse(vs, 1) \o <<Text(")")>>

skip(s, n) == [i \in 1..(IF Len(s) > n THEN Len(s) - n ELSE 0) |-> s[i + n]]

type_to_text(ty) ==
    CASE ty = "List" -> "list"
      [] ty = "ListCell" -> "cons"
      [] ty = "Nil" -> "nil"
      [] ty = "Map" -> "map"
      [] ty = "Number" -> "number"
      [] ty = "Float" -> "float"
      [] ty = "Integer" -> "integer"
      [] ty = "SmallInteger" -> "smallint"
      [] ty = "BigInteger" -> "bigint"

\* The values of the value list args_vl, value_list_get_n(args_vl, n) for
\* every n below value_list_length(args_vl).
match_args(args_vl) ==
    [n \in 1..value_list_length(args_vl) |-> value_list_get_n(args_vl, n - 1)]

\* The branch i (0-based) of a Match: the body of the loop over branches.
match_branch_to_doc(reads, i, kind) ==
    LET block == value_list_get_n(reads[1], i)
    IN  IF block = 0 \/ i + 3 > Len(reads) THEN PrinterPanics
        ELSE LET args == match_args(reads[i + 3])
                 body(as) == <<value_use_to_doc(block)>> \o parens(as)
             IN  CASE kind.kind \in {"Value", "MapItem"} ->
                        IF Len(args) = 0 THEN PrinterPanics
                        ELSE Printed(<<value_use_to_doc(args[1]), Text("=>")>>
                                        \o body(skip(args, 1)))
                   [] kind.kind = "Type" ->
                        Printed(<<Text("is_type"), Text(type_to_text(kind.ty)),
                                  Text("=>")>> \o body(args))
                   [] kind.kind = "Binary" -> PrinterPanics
                   [] kind.kind = "Tuple" ->
                        Printed(<<Text("{}"), TextNum("arity", kind.arity),
                                  Text("=>")>> \o body(args))
                   [] kind.kind = "ListCell" ->
                        Printed(<<Text("[]"), Text("=>")>> \o body(args))
                   [] kind.kind = "Wildcard" ->
                        Printed(<<Text("_"), Text("=>")>> \o body(args))

\* The branches from the i-th on, one after the other.
RECURSIVE match_branches_to_doc(_, _, _)
match_branches_to_doc(reads, branches, i) ==
    IF i >= Len(branches) THEN Printed(<<>>)
    ELSE LET first == match_branch_to_doc(reads, i, branches[i + 1])
             rest == match_branches_to_doc(reads, branches, i + 1)
         IN  IF first.panic \/ rest.panic THEN PrinterPanics
             ELSE Printed(first.doc \o rest.doc)

\* OpKind::Match: the branches, then the selector, which is reads[0].
match_to_doc(reads, branches) ==
    IF Len(reads) = 0 THEN PrinterPanics
    ELSE LET formatted == match_branches_to_doc(reads, branches, 0)
         IN  IF formatted.panic THEN PrinterPanics
             ELSE Printed(<<Text("match"), value_use_to_doc(reads[1]), Text("{")>>
                             \o formatted.doc \o <<Text("}")>>)

\* let op_doc = match op { ... }
op_to_doc(op, reads) ==
    CASE op.tag = "Case" -> Printed(<<Text("case"), Text("{"), Text("}")>>)
      [] op.tag = "Match" -> match_to_doc(reads, op.branches)
      [] op.tag = "CallFunction" ->
            IF Len(reads) < 3 THEN PrinterPanics
            ELSE Printed(<<value_use_to_doc(reads[1])>> \o parens(skip(reads, 3))
                            \o <<Text("=>"), value_use_to_doc(reads[2]),
                                 Text("except"), value_use_to_doc(reads[3])>>)
      [] op.tag = "CallControlFlow" ->
            IF Len(reads) < 1 THEN PrinterPanics
            ELSE Printed(<<value_use_to_doc(reads[1])>> \o parens(skip(reads, 1)))
      [] op.tag = "TraceCaptureRaw" ->
            IF Len(reads) # 1 THEN PrinterPanics
            ELSE Printed(<<Text("trace_capture_raw"), value_use_to_doc(reads[1])>>)
      [] op.tag = "UnpackValueList" ->
            IF Len(reads) # 2 THEN PrinterPanics
            ELSE Printed(<<Text("unpack"), value_use_to_doc(reads[2]),
                           TextNum("arena", op.n), Text("=>"),
                           value_use_to_doc(reads[1])>>)
      [] op.tag = "IfBool" ->
            IF Len(reads) = 3
            THEN Printed(<<Text("if_bool"), value_use_to_doc(reads[3]),
                           value_use_to_doc(reads[1]), value_use_to_doc(reads[2])>>)
            ELSE IF Len(reads) = 4
            THEN Printed(<<Text("if_bool"), value_use_to_doc(reads[4]),
                           value_use_to_doc(reads[1]), value_use_to_doc(reads[2]),
                           value_use_to_doc(reads[3])>>)
            ELSE PrinterPanics
      [] op.tag = "Unreachable" -> Printed(<<Text("unreachable")>>)
      [] op.tag = "Intrinsic" ->
            Printed(<<Text("intrinsic"), Text(op.name)>> \o parens(reads))
      [] OTHER -> Printed(<<Text("unknown")>>)

\* block_op_to_doc: the document of the terminator, closed by ";".
block_op_to_doc(block) ==
    LET op_doc == op_to_doc(block_kind(block), block_reads(block))
    IN  IF op_doc.panic THEN PrinterPanics
        ELSE Printed(op_doc.doc \o <<Text(";")>>)

\* A call of block_op_to_doc on a terminated block.
BlockOpToDoc ==
    /\ ~aborted
    /\ \E block \in DOMAIN blocks :
          \E d \in {block_op_to_doc(block)} :
             /\ result' = [call |-> "block_op_to_doc", term |-> "",
                           reads |-> d.doc, a |-> block, b |-> 0, ret |-> 0]
             /\ aborted' = d.panic
    /\ UNCHANGED <<passVars, funVars, locVars>>

\* The terminators printed.  Block 1 has the formals x and y; a read is a
\* value or the value list of some values.
POne(o) == [list |-> FALSE, os |-> <<o>>]
PList(os) == [list |-> TRUE, os |-> os]

RECURSIVE printer_reads_in(_, _, _)
printer_reads_in(f, ps, n) ==
    IF n > Len(ps) THEN [f |-> f, reads |-> <<>>]
    ELSE LET r == operands_in(f, ps[n].os, 1)
             v == IF ps[n].list THEN prim_op_in(r.f, "ValueList", r.reads)
                  ELSE [f |-> r.f, ret |-> r.reads[1]]
             rest == printer_reads_in(v.f, ps, n + 1)
         IN  [f |-> rest.f, reads |-> <<v.ret>> \o rest.reads]

MatchKinds ==
    {MatchKind("Value"), MatchType("ListCell"), MatchKind("Binary"), MatchTuple(2),
     MatchKind("ListCell"), MatchKind("MapItem"), MatchKind("Wildcard")}

\* The values a branch of the kind hands over: the value matched against
\* for Value and MapItem, none for the others.
MatchArgs(kind) ==
    IF kind.kind \in {"Value", "MapItem"} THEN <<OArg(1, 0)>> ELSE <<>>

MatchDest(i) == OBlock(IF i % 2 = 1 THEN 3 ELSE 2)

MatchTerminators ==
    {[op |-> OpMatch(branches),
      reads |-> <<PList([i \in DOMAIN branches |-> MatchDest(i)]), POne(sel)>>
                   \o [i \in DOMAIN branches |-> PList(MatchArgs(branches[i]))]] :
        branches \in SeqsUpTo(MatchKinds, MaxBranches) \ {<<>>},
        sel \in {OArg(1, 0), OArg(1, 1)}}

OtherTerminators ==
    LET x == POne(OArg(1, 0))
        y == POne(OArg(1, 1))
        k == POne(OBlock(3))
    IN  {[op |-> OpKind("CallFunction"), reads |-> <<x, k, k>> \o args] :
            args \in {<<>>, <<y>>}}
        \cup {[op |-> OpKind("CallControlFlow"), reads |-> <<k>> \o args] :
                 args \in {<<>>, <<x>>}}
        \cup {[op |-> OpKind("TraceCaptureRaw"), reads |-> <<k>>]}
        \cup {[op |-> OpUnpackValueList(n), reads |-> <<k, x>>] : n \in 1..2}
        \cup {[op |-> OpKind("IfBool"), reads |-> <<k, k>> \o or \o <<x>>] :
                 or \in {<<>>, <<k>>}}
        \cup {[op |-> OpKind("Unreachable"), reads |-> <<>>]}
        \cup {[op |-> OpIntrinsic("receive_wait_forever"), reads |-> <<x>>]}
        \cup {[op |-> [OpKind("MapPut") EXCEPT !.name = action],
               reads |-> <<k, k, x, y>>] : action \in {"Put", "Update"}}
        \cup {[op |-> OpKind("TraceConstruct"), reads |-> <<k, x>>]}

PrintTerminators == MatchTerminators \cup OtherTerminators

\* The terminators with one branch at most.
ShortTerminators == {t \in PrintTerminators : Len(t.op.branches) <= 1}

RECURSIVE printer_terminate_in(_, _, _)
printer_terminate_in(f, ts, n) ==
    IF n > Len(ts) THEN f
    ELSE LET r == printer_reads_in(f, ts[n].reads, 1)
         IN  printer_terminate_in(set_terminator_in(r.f, n, ts[n].op, r.reads),
                                  ts, n + 1)

\* Three blocks, the first with two formals and any of the terminators, the
\* second with any of the short ones, the last unreachable.
InitPrint ==
    /\ \E t1 \in PrintTerminators, t2 \in ShortTerminators :
         \E f \in {printer_terminate_in(
                      insert_blocks_in(EmptyFun,
                                       <<[nargs |-> 2], [nargs |-> 0], [nargs |-> 0]>>, 1),
                      <<t1, t2, [op |-> OpKind("Unreachable"), reads |-> <<>>]>>, 1)} :
            /\ blocks = f.blocks
            /\ values = f.values
            /\ primops = f.primops
            /\ consts = f.consts
    /\ terminals = <<>>
    /\ locations = << <<>> >>
    /\ result = NoResult
    /\ aborted = FALSE
    /\ entry = 1
    /\ pass = SimplifyCfgPass_new

SpecPrint == InitPrint /\ [][BlockOpToDoc]_vars

----------------------------------------------------------------------------
(* The comparison of terminator kinds (function/mod.rs, block_op_eq).      *)

OpDyn(name) == [OpKind("Dyn") EXCEPT !.name = name]

\* DynOp::op_eq of a dialect: the two operations are the same operation.
op_eq(l, r) == l.name = r.name

\* The match on the pair of kinds; l and r are the kinds of the two blocks.
op_kind_eq(l, r) ==
    CASE l.tag \in {"CallFunction", "CallControlFlow"}
            /\ r.tag \in {"CallFunction", "CallControlFlow"} -> l.tag = r.tag
      [] l.tag = "IfBool" /\ r.tag = "IfBool" -> TRUE
      [] l.tag = "Dyn" /\ r.tag = "Dyn" -> op_eq(l, r)
      [] l.tag = "TraceCaptureRaw" /\ r.tag = "TraceCaptureRaw" -> TRUE
      [] l.tag = "TraceConstruct" /\ r.tag = "TraceConstruct" -> TRUE
      [] l.tag = "MapPut" /\ r.tag = "MapPut" /\ l.name = r.name -> TRUE
      [] l.tag = "UnpackValueList" /\ r.tag = "UnpackValueList" /\ l.n = r.n -> TRUE
      [] l.tag = "Match" /\ r.tag = "Match" /\ l.branches = r.branches -> TRUE
      [] l.tag = "Unreachable" /\ r.tag = "Unreachable" -> TRUE
      [] OTHER -> FALSE

\* self.block_op_eq(lb, r_fun, rb), with r_fun the function itself.
block_op_eq(lb, rb) == op_kind_eq(block_kind(lb), block_kind(rb))

BlockOpEq ==
    /\ result = NoResult
    /\ \E lb, rb \in DOMAIN blocks :
          result' = Call("block_op_eq", lb, rb, IF block_op_eq(lb, rb) THEN 1 ELSE 0)
    /\ UNCHANGED <<passVars, funVars, locVars, aborted>>

DynTerminators ==
    {[op |-> OpDyn(name), reads |-> <<POne(OBlock(3))>>] : name \in {"d", "e"}}

\* Three blocks, the first with two formals, the last unreachable, the two
\* others with any of the short terminators or a Dyn.
InitOpEq ==
    /\ \E t1, t2 \in ShortTerminators \cup DynTerminators :
         \E f \in {printer_terminate_in(
                      insert_blocks_in(EmptyFun,
                                       <<[nargs |-> 2], [nargs |-> 0], [nargs |-> 0]>>, 1),
                      <<t1, t2, [op |-> OpKind("Unreachable"), reads |-> <<>>]>>, 1)} :
            /\ blocks = f.blocks
            /\ values = f.values
            /\ primops = f.primops
            /\ consts = f.consts
    /\ terminals = <<>>
    /\ locations = << <<>> >>
    /\ result = NoResult
    /\ aborted = FALSE
    /\ entry = 1
    /\ pass = SimplifyCfgPass_new

SpecOpEq == InitOpEq /\ [][BlockOpEq]_vars

----------------------------------------------------------------------------
(* The walk of nested values with a visit that may fail (function/mod.rs). *)
(* visit fails on the value err_on (0: on none).  A walk gives the values  *)
(* visit was called with, in call order, and whether it returned Err.      *)

RECURSIVE value_walk_nested_values_visit(_, _)
RECURSIVE primop_walk_nested_values_visit(_, _, _)

\* Mutant: the result of walking an operand is dropped, the loop goes on.
primop_walk_nested_values_goes_on(primop, i, err_on) ==
    IF i > Len(primops[primop].reads) THEN [visited |-> <<>>, err |-> FALSE]
    ELSE LET first == value_walk_nested_values_visit(primops[primop].reads[i], err_on)
             rest == primop_walk_nested_values_visit(primop, i + 1, err_on)
         IN  [visited |-> first.visited \o rest.visited, err |-> rest.err]

\* The loop over data.reads, from its i-th element on: "?" returns the
\* first Err.
primop_walk_nested_values_visit(primop, i, err_on) ==
    IF i > Len(primops[primop].reads) THEN [visited |-> <<>>, err |-> FALSE]
    ELSE LET first == value_walk_nested_values_visit(primops[primop].reads[i], err_on)
             rest == primop_walk_nested_values_visit(primop, i + 1, err_on)
         IN  IF first.err THEN first
             ELSE [visited |-> first.visited \o rest.visited, err |-> rest.err]

\* visit(val)?, then the operands when the value is a PrimOp.
value_walk_nested_values_visit(val, err_on) ==
    IF val = err_on THEN [visited |-> <<val>>, err |-> TRUE]
    ELSE IF values[val].kind.tag = "PrimOp"
    THEN LET nested == primop_walk_nested_values_visit(values[val].kind.id, 1, err_on)
         IN  [visited |-> <<val>> \o nested.visited, err |-> nested.err]
    ELSE [visited |-> <<val>>, err |-> FALSE]

\* A call of value_walk_nested_values with a visit that fails on err_on.
ValueWalkNestedValues ==
    /\ result = NoResult
    /\ \E val \in DOMAIN values, err_on \in {0} \cup DOMAIN values :
          \E r \in {value_walk_nested_values_visit(val, err_on)} :
             result' = [call |-> "value_walk_nested_values", term |-> "",
                        reads |-> r.visited, a |-> val, b |-> err_on,
                        ret |-> IF r.err THEN 1 ELSE 0]
    /\ UNCHANGED <<passVars, funVars, locVars, aborted>>

\* The PrimOps made one after the other, each over values made before it.
RECURSIVE walk_primops_in(_, _)
walk_primops_in(f, n) ==
    IF n = 0 THEN {f}
    ELSE UNION {{prim_op_in(g, "Tuple", reads).f :
                    reads \in UNION {[1..k -> DOMAIN g.values] : k \in OperandCounts}} :
                g \in walk_primops_in(f, n - 1)}

\* A block with one formal, a constant, and up to WalkPrimOps Tuples (the
\* walk does not look at the kind of a PrimOp).
InitWalk ==
    /\ \E n \in 0..WalkPrimOps :
         \E f \in walk_primops_in(value_in(block_insert_args_in(EmptyFun, 1).f, "a").f, n) :
            /\ blocks = f.blocks
            /\ values = f.values
            /\ primops = f.primops
            /\ consts = f.consts
    /\ terminals = <<>>
    /\ locations = << <<>> >>
    /\ result = NoResult
    /\ aborted = FALSE
    /\ entry = 1
    /\ pass = SimplifyCfgPass_new

SpecWalk == InitWalk /\ [][ValueWalkNestedValues]_vars

----------------------------------------------------------------------------
(* What a function does from a block on, with every control-flow call of   *)
(* a block carried out: the terminator that is reached, its reads with the *)
(* formals bound on the way replaced by what was passed, and under each    *)
(* block it reads what that block does. A run of control-flow calls that   *)
(* never ends is the sleep-forever intrinsic.                              *)

\* The terminator of block is a control-flow call of a block.
calls_block(f, block) ==
    /\ f.blocks[block].op = "CallControlFlow"
    /\ f.blocks[block].reads # <<>>
    /\ f.values[f.blocks[block].reads[1]].kind.tag = "Block"

Leaf(o) == [leaf |-> o]

\* The pairs of bound, those of passed taking the place of any for the
\* same formal.
Rebind(bound, passed) ==
    {p \in bound : \A q \in passed : q[1] # p[1]} \cup passed

\* The formals of block, the i-th bound to a free name.
formals_free(f, block) ==
    {<<f.blocks[block].arguments[i], Leaf(OArg(0, i - 1))>> :
        i \in DOMAIN f.blocks[block].arguments}

\* depth counts the terminators still to be looked into, fuel the
\* control-flow calls that may still be carried out before the next one.
RECURSIVE unfold_value(_, _, _, _), unfold(_, _, _, _, _)
unfold_value(f, bound, v, depth) ==
    LET kind == f.values[v].kind
    IN  IF kind.tag = "Block"
        THEN unfold(f, bound, kind.id, depth, Len(f.blocks) + 1)
        ELSE IF kind.tag = "Const" THEN Leaf(OConst(f.consts[kind.id]))
        ELSE IF \E p \in bound : p[1] = v
        THEN (CHOOSE p \in bound : p[1] = v)[2]
        ELSE Leaf([k |-> "unbound", b |-> v, n |-> 0, c |-> ""])

unfold(f, bound, block, depth, fuel) ==
    LET data == f.blocks[block]
    IN  IF depth = 0 THEN Leaf([k |-> "cut", b |-> 0, n |-> 0, c |-> ""])
        ELSE IF fuel = 0 THEN [op |-> SleepForever, reads |-> <<>>]
        ELSE IF calls_block(f, block)
        THEN LET callee == f.values[data.reads[1]].kind.id
                 formals == f.blocks[callee].arguments
                 passed == {<<formals[i],
                              unfold_value(f, bound, data.reads[i + 1], depth)>> :
                               i \in DOMAIN formals \cap 1..(Len(data.reads) - 1)}
             IN  unfold(f, Rebind(bound, passed), callee, depth, fuel - 1)
        ELSE [op |-> data.op,
              reads |-> [j \in DOMAIN data.reads |->
                            unfold_value(f, bound, data.reads[j], depth - 1)]]

Unfold(f, start) ==
    unfold(f, formals_free(f, start), start, UnfoldDepth, Len(f.blocks) + 1)

\* A run of simplify_cfg has returned.
PassReturned == pass.pc = "idle" /\ pass.runs >= 1

\* The blocks reachable from the entry.
Reachable == live_block_graph(Fun, entry).nodes

\* The blocks of the function the last run started on that lie on a chain:
\* those with a chain edge, and their callees.
ChainBlocksBefore ==
    LET f == pass.before
        live == live_block_graph(f, pass.entry).nodes
        edges == {b \in live : is_chain_edge(f, b)}
    IN  edges \cup {chain_callee(f, b) : b \in edges}

\* The chain blocks of that function that run into a cycle.
CycleBlocksBefore ==
    {b \in ChainBlocksBefore : chain_cycle(pass.before, b) # {}}

----------------------------------------------------------------------------
(* What the properties below speak of, stated without the walks of the     *)
(* code.                                                                   *)

\* v and every value nested in it through PrimOp operands.
RECURSIVE NestedIn(_)
NestedIn(v) ==
    {v} \cup (IF values[v].kind.tag = "PrimOp"
              THEN UNION {NestedIn(r) : r \in Range(primops[values[v].kind.id].reads)}
              ELSE {})

\* The blocks that appear as operands of b's terminator.
OperandBlocks(b) ==
    {values[v].kind.id :
        v \in {w \in UNION {NestedIn(r) : r \in Range(blocks[b].reads)} :
                  values[w].kind.tag = "Block"}}

\* The blocks named by the reads themselves, not through a PrimOp.
DirectBlocks(b) ==
    {values[v].kind.id : v \in {w \in Range(blocks[b].reads) : values[w].kind.tag = "Block"}}

SuccessorsExact(b) == blocks[b].successors = OperandBlocks(b)

PredecessorsExact(b) ==
    blocks[b].predecessors = {p \in DOMAIN blocks : b \in OperandBlocks(p)}

IsValueList(v) ==
    values[v].kind.tag = "PrimOp" /\ primops[values[v].kind.id].op = "ValueList"

----------------------------------------------------------------------------
(* C1: after any sequence of builder operations, for every block b of the  *)
(* function: the blocks that appear as operands of b's terminator,         *)
(* directly or inside PrimOp operands, are exactly b.successors, every     *)
(* successor lists b among its predecessors, and graph_validate_global     *)
(* does not assert.                                                        *)
C1_GraphInvariant ==
    /\ \A b \in DOMAIN blocks :
          /\ SuccessorsExact(b)
          /\ \A su \in blocks[b].successors : b \in blocks[su].predecessors
    /\ graph_validate_global

\* A block whose terminator names one successor directly and another only
\* inside a PrimOp, beside a block that was given no terminator.
C1_Witness ==
    \E b \in DOMAIN blocks, c \in DOMAIN blocks :
        /\ blocks[b].op # NoOp
        /\ Cardinality(blocks[b].successors) = 2
        /\ DirectBlocks(b) # OperandBlocks(b)
        /\ blocks[c].op = NoOp

(* C2: graph_validate_global succeeds exactly on the states in which every *)
(* block's successors and predecessors are exactly the blocks its          *)
(* terminator reads and the blocks whose terminator reads it.              *)
C2_ValidateIffExact ==
    result.call = "graph_validate_global" =>
        (result.ret = 1 <=>
            \A b \in DOMAIN blocks : SuccessorsExact(b) /\ PredecessorsExact(b))

\* What the validation does decide: the successors are exact and the
\* predecessors hold at least the blocks that read the block.
C2_ValidateDecides ==
    result.call = "graph_validate_global" =>
        (result.ret = 1 <=>
            \A b \in DOMAIN blocks :
                /\ SuccessorsExact(b)
                /\ {p \in DOMAIN blocks : b \in OperandBlocks(p)}
                        \subseteq blocks[b].predecessors)

(* C3: an op_* call on a block that has a terminator is reported as a      *)
(* contract violation and changes no block; no call replaces a terminator  *)
(* by another one; and after block_clear(src), src has no terminator, no   *)
(* reads and no successors, and is in no block's predecessors.             *)
C3_Reterminate ==
    [][/\ (aborted' /\ ~aborted) =>
              /\ result'.call = "panic"
              /\ blocks[result'.a].op # NoOp
              /\ blocks' = blocks
              /\ values' = values
       /\ \A b \in DOMAIN blocks :
              blocks[b].op # NoOp =>
                 \/ blocks'[b].op = NoOp
                 \/ blocks'[b].op = blocks[b].op /\ blocks'[b].reads = blocks[b].reads
       /\ result'.call = "block_clear" =>
              /\ blocks'[result'.a].op = NoOp
              /\ blocks'[result'.a].reads = <<>>
              /\ blocks'[result'.a].successors = {}
              /\ \A b \in DOMAIN blocks' : result'.a \notin blocks'[b].predecessors
      ]_vars

\* The violation was reported for a block whose terminator names successors.
C3_Witness ==
    /\ aborted
    /\ result.call = "panic"
    /\ blocks[result.a].op # NoOp
    /\ blocks[result.a].successors # {}

(* C4: for every value v of kind Argument(b, n): block b has at least n+1  *)
(* arguments, block_args(b)[n] = v, block_arg_n(b, n) = Some(v) and        *)
(* value_argument(v) = Some((b, n)); the arguments of one block have       *)
(* pairwise different positions.                                           *)
C4_Arguments ==
    /\ \A v \in DOMAIN values :
          values[v].kind.tag = "Argument" =>
             /\ values[v].kind.id \in DOMAIN blocks
             /\ Len(block_args(values[v].kind.id)) >= values[v].kind.n + 1
             /\ block_args(values[v].kind.id)[values[v].kind.n + 1] = v
             /\ block_arg_n(values[v].kind.id, values[v].kind.n) = v
             /\ value_argument(v) = <<values[v].kind.id, values[v].kind.n>>
    /\ \A b \in DOMAIN blocks :
          \A i \in DOMAIN block_args(b), j \in DOMAIN block_args(b) :
             /\ values[block_args(b)[i]].kind.tag = "Argument"
             /\ values[block_args(b)[i]].kind.id = b
             /\ (i # j => values[block_args(b)[i]].kind.n # values[block_args(b)[j]].kind.n)

\* A block was given its second argument after another block was inserted.
C4_Witness ==
    /\ result.call = "block_arg_insert"
    /\ Len(blocks) = 2
    /\ \E b \in DOMAIN blocks :
          /\ Len(block_args(b)) = 2
          /\ block_value(b) < block_args(b)[1]
          /\ block_args(b)[1] + 1 < block_args(b)[2]

C7_Usages ==
    \A v \in DOMAIN values :
        value_usages(v) = {b \in DOMAIN blocks : v \in Range(block_reads(b))}

\* block_clear left a value without usages that another block still reads
\* a neighbour of.
C7_Witness ==
    /\ result.call = "block_clear"
    /\ \E v \in DOMAIN values, w \in DOMAIN values :
          /\ value_usages(v) = {}
          /\ value_usages(w) # {}
          /\ result.a \notin value_usages(w)

(* C8: for every value v that is not a ValueList PrimOp,                   *)
(* value_list_length(v) = 1 and value_list_get_n(v, 0) = Some(v).          *)
C8_NotAList ==
    \A v \in DOMAIN values :
        ~IsValueList(v) => value_list_length(v) = 1 /\ value_list_get_n(v, 0) = v

\* A block value, an argument, a constant and a Tuple of two operands.
C8_Witness ==
    /\ \E v \in DOMAIN values : values[v].kind.tag = "Block"
    /\ \E v \in DOMAIN values : values[v].kind.tag = "Argument"
    /\ \E v \in DOMAIN values : values[v].kind.tag = "Const"
    /\ \E v \in DOMAIN values :
          /\ values[v].kind.tag = "PrimOp"
          /\ primops[values[v].kind.id].op = "Tuple"
          /\ Len(primops[values[v].kind.id].reads) = 2

(* C9: lookup(concat_locations(bottom, top)) is the span list of bottom    *)
(* followed by the span list of top, and concat_locations changes no       *)
(* terminal and no location that existed.                                  *)
C9_Concat ==
    [][result'.call = "concat_locations" =>
          /\ lookup(result.ret)' = lookup(result'.a) \o lookup(result'.b)
          /\ terminals' = terminals
          /\ IsPrefix(locations, locations')
          /\ lookup(result.a)' = lookup(result'.a)
          /\ lookup(result.b)' = lookup(result'.b)
      ]_vars

\* Two locations of different spans were concatenated.
C9_Witness ==
    /\ result.call = "concat_locations"
    /\ lookup(result.a) # <<>>
    /\ lookup(result.b) # <<>>
    /\ lookup(result.a) # lookup(result.b)
    /\ Len(lookup(result.ret)) = Len(lookup(result.a)) + Len(lookup(result.b))

(* C10 as claimed: every location of the container, and so the location of *)
(* every block, has at least one terminal: lookup never returns the empty  *)
(* list.                                                                   *)
C10_NeverEmpty ==
    /\ \A l \in DOMAIN locations : lookup(l) # <<>>
    /\ \A b \in DOMAIN blocks : lookup(block_location(b)) # <<>>

(* C10 as amended: location and from_bytespan return a location of exactly *)
(* one terminal; concat_locations returns one with the terminals of its    *)
(* two operands, empty only when both are; location_empty returns the      *)
(* location without terminals; a block inserted with a span has a          *)
(* location of one terminal and a block inserted without one the empty     *)
(* location.                                                               *)
C10_EmptyOnlyWhenAsked ==
    /\ result.call \in {"location", "from_bytespan"} => Len(lookup(result.ret)) = 1
    /\ result.call = "concat_locations" =>
          Len(lookup(result.ret)) = Len(lookup(result.a)) + Len(lookup(result.b))
    /\ result.call = "location_empty" => lookup(result.ret) = <<>>
    /\ result.call = "block_insert_with_span" =>
          Len(lookup(block_location(result.ret))) = result.a

\* A block inserted without a span in a container that holds a location of
\* two terminals.
C10_Witness ==
    /\ result.call = "block_insert_with_span"
    /\ result.a = 0
    /\ lookup(block_location(result.ret)) = <<>>
    /\ \E l \in DOMAIN locations : Len(lookup(l)) = 2

(* C11: location_unknown returns a location to which the unknown terminal  *)
(* is attached: its lookup is [UNKNOWN], and it is not the location that   *)
(* location_empty returns.                                                 *)
C11_UnknownAttached ==
    result.call = "location_unknown" =>
        /\ lookup(result.ret) = <<UNKNOWN>>
        /\ locations[result.ret] # <<>>

(* C12: locations are de-duplicated: no two terminals hold the same data   *)
(* and no two locations the same terminal sequence; location(f, l, n, s)   *)
(* returns the location of the one terminal (f, l, n, s), so equal calls   *)
(* return one handle and different calls different handles; concatenating  *)
(* with the empty location returns the other operand's handle; and for     *)
(* the location concat(a, b) returned and every location c,                *)
(* concat(concat(a, b), c) = concat(a, concat(b, c)) and                   *)
(* concat(c, concat(a, b)) = concat(concat(c, a), b).                      *)
C12_Dedup ==
    /\ \A t \in DOMAIN terminals, u \in DOMAIN terminals :
          terminals[t] = terminals[u] => t = u
    /\ \A l \in DOMAIN locations, m \in DOMAIN locations :
          locations[l] = locations[m] => l = m
    /\ result.call = "location" =>
          /\ Len(locations[result.ret]) = 1
          /\ terminals[locations[result.ret][1]]
                = LocationTerminalData(result.a, result.a, 0, result.b)
    /\ result.call = "concat_locations" =>
          /\ locations[result.a] = <<>> => result.ret = result.b
          /\ locations[result.b] = <<>> => result.ret = result.a
          /\ \A c \in DOMAIN locations :
                \A ab_c \in {concat_locations_in(locations, result.ret, c)} :
                   \A bc \in {concat_locations_in(ab_c.arena, result.b, c)} :
                      concat_locations_in(bc.arena, result.a, bc.id).id = ab_c.id
          /\ \A c \in DOMAIN locations :
                \A c_ab \in {concat_locations_in(locations, c, result.ret)} :
                   \A ca \in {concat_locations_in(c_ab.arena, c, result.a)} :
                      concat_locations_in(ca.arena, ca.id, result.b).id = c_ab.id

\* The empty location was put under a location with a terminal, beside
\* another location with a terminal, and the first one's handle came back.
C12_Witness ==
    /\ result.call = "concat_locations"
    /\ locations[result.a] = <<>>
    /\ locations[result.b] # <<>>
    /\ result.ret = result.b
    /\ \E l \in DOMAIN locations : l # result.b /\ locations[l] # <<>>

C14_CyclesSleep ==
    PassReturned =>
        /\ \A b \in Reachable : ~is_chain_edge(Fun, b) \/ chain_cycle(Fun, b) = {}
        /\ Reachable \cap CycleBlocksBefore = {}
        /\ Unfold(Fun, entry) = Unfold(pass.before, pass.entry)
        /\ pass.entry \in CycleBlocksBefore =>
              /\ Fun.blocks[entry].op = SleepForever
              /\ Fun.blocks[entry].reads = <<>>

\* A run has returned on a function where a branch of the entry's if_bool
\* led into a cycle of two blocks, and that branch is now the intrinsic.
C14_Witness ==
    /\ PassReturned
    /\ pass.runs = 1
    /\ pass.before.blocks[pass.entry].op = "IfBool"
    /\ \E b \in CycleBlocksBefore :
          /\ b \in pass.before.blocks[pass.entry].successors
          /\ Cardinality(chain_cycle(pass.before, b)) = 2
    /\ Fun.blocks[entry].op = "IfBool"
    /\ \E b \in Fun.blocks[entry].successors : Fun.blocks[b].op = SleepForever

\* C15: the function reachable from the entry after the second run of
\* simplify_cfg is, up to the numbering of its blocks and values, the one
\* reachable after the first.
C15_Idempotent ==
    Len(pass.history) >= 2 => pass.history[2] = pass.history[1]

\* Two runs have returned, and the first changed the function: the block
\* that was the entry then makes the call of the block it reached by a chain
\* edge, and what is reachable is one block.
C15_Witness ==
    /\ Len(pass.history) = 2
    /\ pass.pc = "idle"
    /\ Fun.blocks[1].op = "CallFunction"
    /\ Fun.blocks[2].op = "CallFunction"
    /\ Len(Fun.blocks[2].arguments) = 1
    /\ Fun.blocks[2].predecessors = {}
    /\ Len(pass.history[1]) = 1
    /\ pass.history[1][1].op = "CallFunction"

\* C16: when a run of simplify_cfg that started on a function satisfying
\* the graph invariants has returned, graph_validate_global succeeds, every
\* predecessor of a block is a block that has it among its successors, the
\* successors of every block are the blocks its terminator reads, every
\* value read by a reachable terminator (directly or inside a PrimOp) is a
\* value of the function naming a block, constant or PrimOp of the
\* function, and the entry is a block of the function with a terminator.
C16_StillValid ==
    (PassReturned /\ pass.input_valid) =>
        /\ graph_validate_global
        /\ \A b \in DOMAIN blocks :
              /\ SuccessorsExact(b)
              /\ \A p \in blocks[b].predecessors :
                    p \in DOMAIN blocks /\ b \in blocks[p].successors
        /\ entry \in DOMAIN blocks
        /\ blocks[entry].op # NoOp
        /\ \A b \in live_block_graph(Fun, entry).nodes :
              \A v \in Range(reads_walk_in(Fun, blocks[b].reads, 1)) :
                 /\ v \in DOMAIN values
                 /\ CASE values[v].kind.tag = "Block" -> values[v].kind.id \in DOMAIN blocks
                      [] values[v].kind.tag = "Argument" ->
                            /\ values[v].kind.id \in DOMAIN blocks
                            /\ v \in Range(blocks[values[v].kind.id].arguments)
                      [] values[v].kind.tag = "Const" -> values[v].kind.id \in DOMAIN consts
                      [] values[v].kind.tag = "PrimOp" -> values[v].kind.id \in DOMAIN primops

\* A run has returned that rewrote two chains and minted a block, and the
\* entry is a block made by the mangler.
C16_Witness ==
    /\ PassReturned
    /\ pass.input_valid
    /\ pass.runs = 1
    /\ Len(pass.rewritten) = 2
    /\ entry > Len(pass.before.blocks) + 1
    /\ \E b \in DOMAIN blocks : blocks[b].predecessors # {} /\ b > Len(pass.before.blocks)

\* C17: the position of a run moves idle, analyze, rewrite, mangle, idle
\* and in no other way; a chain is rewritten (and the function changed by a
\* rewrite) only at rewrite, after analyze_graph has returned, and the
\* analysis is not changed by it; the mangler runs only at mangle, when the
\* loop over the block order has ended; the entry is set only in the step
\* in which the mangler runs, once; and whenever the pass is idle its
\* substitution map is empty and its workspace arena is in place.
C17_Phases ==
    [][ /\ pass'.pc # pass.pc =>
              <<pass.pc, pass'.pc>> \in {<<"idle", "analyze">>, <<"analyze", "rewrite">>,
                                        <<"rewrite", "mangle">>, <<"mangle", "idle">>}
        /\ (pass.pc = "idle" /\ pass'.pc = "analyze") =>
              pass.bump = "Some" /\ pass'.bump = "None"
        /\ Len(pass'.rewritten) > Len(pass.rewritten) =>
              /\ pass.pc = "rewrite" /\ pass'.pc = "rewrite"
              /\ pass'.trees = pass.trees
        /\ Fun' # Fun => pass.pc \in {"rewrite", "mangle"}
        /\ pass'.mangler.runs # pass.mangler.runs =>
              /\ pass.pc = "mangle"
              /\ pass.next > Len(pass.block_order)
              /\ pass'.mangler.runs = pass.mangler.runs + 1
        /\ (entry' # entry \/ pass'.entry_sets # pass.entry_sets) =>
              /\ pass.pc = "mangle" /\ pass'.pc = "idle"
              /\ pass'.mangler.runs = pass.mangler.runs + 1
              /\ pass'.entry_sets = pass.entry_sets + 1
        /\ pass'.pc = "idle" => pass'.map = {} /\ pass'.bump = "Some"
      ]_vars

\* A second run has started on the pass object: the first returned after
\* registering renames with the mangler, the map is empty again and the
\* workspace arena has been taken again.
C17_Witness ==
    /\ pass.pc = "analyze"
    /\ pass.runs = 1
    /\ pass.entry_sets = 1
    /\ pass.mangler.renames # {}
    /\ pass.map = {}
    /\ pass.bump = "None"

\* The place of block in order.
PlaceIn(order, block) == CHOOSE i \in DOMAIN order : order[i] = block

\* In the function the run started on, inner is nearer the leaves than
\* outer: it is reachable from outer, which lies on no loop (it is not
\* reachable from its own successors).
IsInner(inner, outer) ==
    LET beyond == ReachableFrom(pass.before, pass.before.blocks[outer].successors)
    IN  inner \in beyond /\ outer \notin beyond

\* C18 (as stated): the targets of the chains are rewritten in the
\* reverse post-order of the live-block graph read at the start of the run.
C18_ReversePostOrder ==
    \A i, j \in DOMAIN pass.rewritten :
       i < j => PlaceIn(dfs_reverse_post_order(pass.graph), pass.rewritten[i])
                   < PlaceIn(dfs_reverse_post_order(pass.graph), pass.rewritten[j])

\* C18 (amended): the targets of the chains are rewritten in the post-order
\* of the live-block graph read at the start of the run, and so a chain
\* whose target is reachable from the target of another that lies on no
\* loop is never rewritten after that other.
C18_PostOrder ==
    \A i, j \in DOMAIN pass.rewritten :
       i < j =>
          /\ PlaceIn(dfs_post_order(pass.graph), pass.rewritten[i])
                < PlaceIn(dfs_post_order(pass.graph), pass.rewritten[j])
          /\ ~IsInner(pass.rewritten[j], pass.rewritten[i])

\* Two chains have been rewritten in a run, the first an inner chain of
\* the second.
C18_Witness ==
    /\ Len(pass.rewritten) = 2
    /\ IsInner(pass.rewritten[1], pass.rewritten[2])

\* C19: in the step in which the mangler runs, it runs once; it was
\* started from the block that was the function's entry when the run began
\* and still is; its renames are exactly the pairs of the substitution map,
\* which was empty when the run began and so holds the pairs of this run
\* only; and the function's entry becomes the block the mangler returns.
\* Between the runs of the pass the mangler has run once for each.
C19_MangleOnce ==
    [][ /\ pass'.mangler.runs # pass.mangler.runs =>
              /\ pass'.mangler.runs = pass.mangler.runs + 1
              /\ pass.mangler.start = pass.entry
              /\ pass.entry = entry
              /\ pass.mangler.renames = pass.map
              /\ entry' = mangler_run(pass.mangler, Fun).ret
              /\ result'.ret = entry'
        /\ (pass.pc = "idle" /\ pass'.pc # "idle") => pass'.map = {}
        /\ pass'.map # pass.map => pass.pc \in {"rewrite", "mangle"}
        /\ pass'.pc = "idle" => pass'.mangler.runs = pass'.runs
      ]_vars

\* The mangler has run for the second time on the pass object, with a
\* rename registered, and the entry is the block it returned.
C19_Witness ==
    /\ result.call = "mangler_run"
    /\ pass.mangler.runs = 2
    /\ pass.mangler.renames # {}
    /\ entry = result.ret
    /\ entry # pass.entry

\* C20: a run of simplify_cfg that started on a function for which
\* graph_validate_global fails has rewritten no chain, and the function and
\* its entry are as they were when it started.
C20_RefusesInvalid ==
    ((pass.pc # "idle" \/ pass.runs > 0) /\ ~pass.input_valid) =>
        /\ pass.rewritten = <<>>
        /\ Fun = pass.before
        /\ entry = pass.entry

\* The values v leads to through the renames, v among them.
RECURSIVE RenamedTo(_, _)
RenamedTo(renames, seen) ==
    LET more == {p[2] : p \in {q \in renames : q[1] \in seen}}
    IN  IF more \subseteq seen THEN seen ELSE RenamedTo(renames, seen \cup more)

\* The value the renames end in from v: the one v leads to that is no key.
RenameEnd(renames, v) ==
    CHOOSE w \in RenamedTo(renames, {v}) : \A p \in renames : p[1] # w

\* f with every read of every block replaced by the value the renames end
\* in.
Renamed(f, renames) ==
    [f EXCEPT !.blocks = [b \in DOMAIN f.blocks |->
        [f.blocks[b] EXCEPT !.reads = [i \in DOMAIN f.blocks[b].reads |->
                                          RenameEnd(renames, f.blocks[b].reads[i])]]]]

\* The mangler has run on its own, and returned a block.
Mangled == result.call = "mangler_run" /\ pass.pc = "idle" /\ pass.mangler.runs = 1

\* The values of the reads of the blocks reachable from the entry.
ReachableReads ==
    UNION {Range(blocks[b].reads) : b \in ReachableFrom(Fun, {entry})}

\* C21: a step in which the mangler is asked to run with renames that return
\* to a value they left changes neither the function nor its entry, and ends
\* in the error; and when the mangler has run, the function reachable from
\* the block it returned is, up to the numbering of handles, the function
\* that was reachable from the start with every read replaced by the value
\* its renames end in (with a->b and b->c a use of a is a use of c), and no
\* key of the renames is read by a reachable block.
C21_Transitive ==
    [][ /\ (pass.pc = "mangle" /\ pass'.pc # "mangle"
               /\ \E p \in pass.mangler.renames :
                     p[1] \in RenamedTo(pass.mangler.renames, {p[2]})) =>
              /\ Fun' = Fun
              /\ entry' = entry
              /\ pass'.mangler.runs = pass.mangler.runs
              /\ aborted'
              /\ result'.call = "panic"
        /\ Mangled' =>
              /\ ReachableReads' \cap {p[1] : p \in pass.mangler.renames} = {}
              /\ Canon(Fun', entry')
                    = Canon(Renamed(pass.before, pass.mangler.renames), pass.entry)
      ]_vars

\* The mangler has run with a formal renamed to a second formal and that
\* one to a third value, the first formal was read by the start block, and
\* the block returned reads the third value there.
C21_Witness ==
    /\ Mangled
    /\ \E p \in pass.mangler.renames, q \in pass.mangler.renames :
          /\ p[2] = q[1]
          /\ \E i \in DOMAIN pass.before.blocks[pass.entry].reads :
                /\ pass.before.blocks[pass.entry].reads[i] = p[1]
                /\ blocks[entry].reads[i] = q[2]

\* h takes the value v of f to the value w of g: a block or a formal to
\* the block h gives or its formal of the same place, a constant to the
\* same constant.
SameUnder(h, f, v, g, w) ==
    LET kv == f.values[v].kind
        kw == g.values[w].kind
    IN  /\ kv.tag = kw.tag
        /\ CASE kv.tag = "Block" -> kv.id \in DOMAIN h /\ kw.id = h[kv.id]
             [] kv.tag = "Argument" ->
                   kv.id \in DOMAIN h /\ kw.id = h[kv.id] /\ kw.n = kv.n
             [] kv.tag = "Const" -> f.consts[kv.id] = g.consts[kw.id]
             [] OTHER -> v = w

\* The function reachable in f from s and the one reachable in g from t are
\* the same up to a one-to-one renaming of the blocks (and with them their
\* formals) that takes s to t.
Isomorphic(f, s, g, t) ==
    LET old == ReachableFrom(f, {s})
        new == ReachableFrom(g, {t})
    IN  \E h \in [old -> new] :
           /\ h[s] = t
           /\ \A b, c \in old : h[b] = h[c] => b = c
           /\ {h[b] : b \in old} = new
           /\ \A b \in old :
                 /\ Len(g.blocks[h[b]].arguments) = Len(f.blocks[b].arguments)
                 /\ g.blocks[h[b]].op = f.blocks[b].op
                 /\ Len(g.blocks[h[b]].reads) = Len(f.blocks[b].reads)
                 /\ \A i \in DOMAIN f.blocks[b].reads :
                       SameUnder(h, f, f.blocks[b].reads[i], g, g.blocks[h[b]].reads[i])

\* C22: when the mangler has run with no rename, the function reachable
\* from the block it returned is the one that was reachable from the start
\* up to a one-to-one renaming of blocks and formals; every block reachable
\* from the new entry is a block made by the run, and the run made as many
\* blocks as were reachable from the start, one for each.
C22_IdentityIsomorphic ==
    (Mangled /\ pass.mangler.renames = {}) =>
        /\ Isomorphic(pass.before, pass.entry, Fun, entry)
        /\ \A b \in ReachableFrom(Fun, {entry}) : b > Len(pass.before.blocks)
        /\ Len(blocks) - Len(pass.before.blocks)
              = Cardinality(ReachableFrom(pass.before, {pass.entry}))

\* The mangler has run with no rename on a function of three blocks in
\* which a block is reached from two blocks and calls itself.
C22_Witness ==
    /\ Mangled
    /\ pass.mangler.renames = {}
    /\ Len(pass.before.blocks) = 3
    /\ \E b \in DOMAIN pass.before.blocks :
          /\ b \in pass.before.blocks[b].successors
          /\ Cardinality(pass.before.blocks[b].predecessors) >= 3
    /\ Len(blocks) = 6

\* The positions of the text s in the document.
TextAt(doc, s) == {i \in DOMAIN doc : doc[i] = Text(s)}

\* C23: a call of block_op_to_doc on a block whose terminator is of the
\* normative set returns a document, and the document tells the terminator:
\* no block of the function with another kind or other reads prints as the
\* same document (so that reading the text back can give the kind and the
\* reads that were printed).
C23_RoundTrip ==
    result.call = "block_op_to_doc" =>
        /\ ~aborted
        /\ \A c \in DOMAIN blocks :
              block_op_to_doc(c) = Printed(result.reads) =>
                 /\ block_kind(c) = block_kind(result.a)
                 /\ block_reads(c) = block_reads(result.a)

\* C25: the document of a Match starts with match and the use of the second
\* read (the selector); it has one branch per entry of branches, and the
\* i-th branch names after its arrow the i-th value of the value list that
\* is the first read.
C25_MatchSelector ==
    (result.call = "block_op_to_doc" /\ ~aborted
            /\ block_kind(result.a).tag = "Match") =>
        LET reads == block_reads(result.a)
            doc == result.reads
            arrows == TextAt(doc, "=>")
        IN  /\ doc[1] = Text("match")
            /\ doc[2] = value_use_to_doc(reads[2])
            /\ Cardinality(arrows) = Len(block_kind(result.a).branches)
            /\ \A i \in 1..Len(block_kind(result.a).branches) :
                  \E a \in arrows :
                     /\ Cardinality({p \in arrows : p < a}) = i - 1
                     /\ doc[a + 1] = value_use_to_doc(value_list_get_n(reads[1], i - 1))

\* C26: for every value v and every position n, value_list_get_n(v, n) is
\* Some exactly when n < value_list_length(v); for a value list of k
\* operands the length is k and the value got is the n-th operand (so None
\* at 0 for the empty list), and for any other value it is the value itself
\* at 0 and None elsewhere.
C26_GetNWithinLength ==
    \A v \in DOMAIN values :
        \A n \in 0..(MaxBranches + 1) :
            /\ (value_list_get_n(v, n) # 0) <=> (n < value_list_length(v))
            /\ IsValueList(v) =>
                  LET operands == primops[values[v].kind.id].reads
                  IN  /\ value_list_length(v) = Len(operands)
                      /\ n < Len(operands) => value_list_get_n(v, n) = operands[n + 1]
            /\ ~IsValueList(v) =>
                  value_list_get_n(v, n) = IF n = 0 THEN v ELSE 0

\* A Match was printed whose reads are a value list of two destinations,
\* which the printer got one by one, and the empty value list, whose length
\* it asked for.
C26_Witness ==
    /\ result.call = "block_op_to_doc"
    /\ ~aborted
    /\ block_kind(result.a).tag = "Match"
    /\ \E i, j \in DOMAIN block_reads(result.a) :
          /\ IsValueList(block_reads(result.a)[i])
          /\ value_list_length(block_reads(result.a)[i]) = 2
          /\ IsValueList(block_reads(result.a)[j])
          /\ value_list_length(block_reads(result.a)[j]) = 0
          /\ value_list_get_n(block_reads(result.a)[j], 0) = 0

\* The number of values in the tree of v, each counted once per occurrence.
RECURSIVE Occurrences(_)
RECURSIVE OccurrencesFrom(_, _)
Occurrences(v) ==
    1 + (IF values[v].kind.tag = "PrimOp"
         THEN OccurrencesFrom(primops[values[v].kind.id].reads, 1)
         ELSE 0)

OccurrencesFrom(reads, i) ==
    IF i > Len(reads) THEN 0 ELSE Occurrences(reads[i]) + OccurrencesFrom(reads, i + 1)

\* The walks of the reads from the i-th on, one after the other.
RECURSIVE WalksFrom(_, _)
WalksFrom(reads, i) ==
    IF i > Len(reads) THEN <<>>
    ELSE value_walk_nested_values(reads[i]) \o WalksFrom(reads, i + 1)

\* C27: the operands of a PrimOp are values made before it, so the walk
\* ends.  With a visit that never fails the walk calls visit on the value
\* first, then on the walk of each operand in operand order, once per
\* occurrence in the tree, and returns Ok.  With a visit that fails on a
\* value of the tree, the walk calls visit as before up to the first
\* occurrence of that value, on nothing after it, and returns the error.
C27_PreOrderUntilError ==
    /\ \A v \in DOMAIN values :
          values[v].kind.tag = "PrimOp" =>
             \A r \in Range(primops[values[v].kind.id].reads) : r < v
    /\ result.call = "value_walk_nested_values" =>
          LET whole == value_walk_nested_values(result.a)
              visited == result.reads
              hits == {i \in DOMAIN whole : whole[i] = result.b}
          IN  /\ whole[1] = result.a
              /\ Len(whole) = Occurrences(result.a)
              /\ values[result.a].kind.tag = "PrimOp" =>
                    whole = <<result.a>>
                               \o WalksFrom(primops[values[result.a].kind.id].reads, 1)
              /\ values[result.a].kind.tag # "PrimOp" => whole = <<result.a>>
              /\ IsPrefix(visited, whole)
              /\ IF hits = {}
                 THEN visited = whole /\ result.ret = 0
                 ELSE Len(visited) = MinOf(hits) /\ result.ret = 1

\* A PrimOp over a PrimOp that has the same value as both operands was
\* walked with a visit that fails on that value: the walk stopped at its
\* first occurrence of two.
C27_Witness ==
    /\ result.call = "value_walk_nested_values"
    /\ result.ret = 1
    /\ values[result.a].kind.tag = "PrimOp"
    /\ \E i \in DOMAIN result.reads :
          /\ i > 1
          /\ values[result.reads[i]].kind.tag = "PrimOp"
          /\ primops[values[result.reads[i]].kind.id].reads = <<result.b, result.b>>
    /\ Len(result.reads) < Len(value_walk_nested_values(result.a)) - 1

\* C28: block_op_eq gives true for a terminated block and itself, whatever
\* the variant of its terminator, and gives for two blocks what it gives
\* for them the other way round.
C28_OpEqEquivalence ==
    result.call = "block_op_eq" =>
        /\ result.a = result.b => result.ret = 1
        /\ (result.ret = 1) <=> block_op_eq(result.b, result.a)

\* The live-block graph of the function as it now is.
GraphNow == live_block_graph(Fun, entry)

\* C29: while a run of simplify_cfg goes over the block order, its live
\* values, its chain analysis and its block order are those of the function
\* as it was when the run started, and no iteration changes them; the
\* chain of an iteration is analysed on the live-block graph of the function
\* as it is then, with those live values, and rewritten.
C29_AnalysedOnce ==
    [][ pass.pc = "rewrite" =>
          /\ pass.graph = live_block_graph(pass.before, pass.entry)
          /\ pass.live = live_values(pass.before, pass.graph)
          /\ pass.block_order = block_order(pass.graph)
          /\ pass.trees = analyze_graph(pass.before, pass.graph)
          /\ pass'.pc = "rewrite" =>
                /\ pass'.graph = pass.graph
                /\ pass'.live = pass.live
                /\ pass'.block_order = pass.block_order
                /\ pass'.trees = pass.trees
          /\ (pass'.pc = "rewrite" /\ Len(pass'.rewritten) > Len(pass.rewritten)) =>
                \E r \in {rewrite(Fun, pass.map,
                                  analyze_chain(pass.block_order[pass.next], Fun, GraphNow,
                                                pass.live, pass.trees),
                                  pass.live)} :
                   Fun' = r.f /\ pass'.map = r.map
      ]_vars

\* A run has rewritten a chain and comes to the next: the function, its
\* live-block graph and the chains an analysis would find in it are no more
\* those of the start of the run, which the run still holds.
C29_Witness ==
    /\ pass.pc = "rewrite"
    /\ Len(pass.rewritten) >= 1
    /\ pass.next <= Len(pass.block_order)
    /\ trees_get(pass.trees, pass.block_order[pass.next]) # {}
    /\ Fun # pass.before
    /\ GraphNow.nodes # pass.graph.nodes
    /\ analyze_graph(Fun, GraphNow) # pass.trees

\* lookup on the container of terminals ts and locations ls.
LookupIn(ts, ls, l) == [i \in DOMAIN ls[l] |-> ts[ls[l][i]].span]

\* In the step, block b is given the terminator of the target in place of
\* its own, and no block is made.
InlinedInto(b, target) ==
    /\ Len(blocks') = Len(blocks)
    /\ b # target
    /\ blocks'[b].op = blocks[target].op
    /\ blocks'[b].op # blocks[b].op \/ blocks'[b].reads # blocks[b].reads

====
